---- MODULE Spec2Model ----
(***************************************************************************)
(* A state-machine model of blackrenderer's COLR glyph interpreter         *)
(* (Lib/blackrenderer/font.py) drawing onto the CoreGraphics canvas        *)
(* (Lib/blackrenderer/backends/coregraphics.py).                           *)
(*                                                                         *)
(* The recursion of _drawPaint is an explicit stack of frames; each frame  *)
(* holds the paint being drawn and the locals of the context managers the  *)
(* handler has entered.  A raised error is the variable exc; it unwinds    *)
(* one frame per step, running none of the code that follows a yield       *)
(* (the context managers of the source have no try/finally).               *)
(***************************************************************************)
EXTENDS Integers, Sequences, FiniteSets, TLC

\* ------------------------------------------------------------------ bounds

\* Largest number of nested wrapper paints above the terminal paint of the
\* COLRv1 root paint of glyph "colr1".
MaxDepth == 2

\* Largest number of drawGlyph calls made on the font and canvas.
MaxRun == 2

\* Largest number of colour stops of a colour line given to
\* _normalizeColorLine on its own.
MaxStops == 3

\* The most glyphs of a shaped glyph line.
MaxGlyphs == 2

\* --------------------------------------------------------------- constants

\* Python's None, for the path- and flag-valued fields that may hold it.
None == "None"

\* colorIndex of the foreground colour.
ForegroundIndex == 65535

\* A varIdx is 32 bits wide: the (outer, inner) 16-bit halves, outer << 16
\* | inner, that index the variation store.
VarIdx(outer, inner) == << outer, inner >>

\* 0xFFFFFFFF, the varIdx of a variable value that does not vary.
NoVarIdx == VarIdx(65535, 65535)

\* 1 << 14: F2Dot14 units per 1.0.
F2Dot14One == 16384

\* 1 << 16: 16.16 Fixed units per 1.0.
FixedOne == 65536

\* ---------------------------------------------------------------- numbers

Abs(n) == IF n < 0 THEN -n ELSE n

RECURSIVE GCD(_, _)
GCD(a, b) == IF b = 0 THEN a ELSE GCD(b, a % b)

\* The rational n/d, d # 0, in lowest terms with a positive denominator:
\* the model's exact stand-in for the floats of the source.
Rat(n, d) ==
    LET g == GCD(Abs(n), Abs(d))
        s == IF d < 0 THEN -1 ELSE 1
    IN  << (s * n) \div g, (s * d) \div g >>

RatInt(n) == << n, 1 >>
RatAdd(a, b) == Rat(a[1] * b[2] + b[1] * a[2], a[2] * b[2])
RatMul(a, b) == Rat(a[1] * b[1], a[2] * b[2])
RatSub(a, b) == Rat(a[1] * b[2] - b[1] * a[2], a[2] * b[2])
\* a / b, b # 0
RatDiv(a, b) == Rat(a[1] * b[2], a[2] * b[1])
RatLeq(a, b) == a[1] * b[2] <= b[1] * a[2]

\* ------------------------------------------------------------- transforms

Identity == << 1, 0, 0, 1, 0, 0 >>

\* self.transform(other): the transform that applies other first, then self.
Compose(self, other) ==
    << other[1] * self[1] + other[2] * self[3],
       other[1] * self[2] + other[2] * self[4],
       other[3] * self[1] + other[4] * self[3],
       other[3] * self[2] + other[4] * self[4],
       self[1] * other[5] + self[3] * other[6] + self[5],
       self[2] * other[5] + self[4] * other[6] + self[6] >>

TranslateT(x, y) == << 1, 0, 0, 1, x, y >>
ScaleT(x, y) == << x, 0, 0, y, 0, 0 >>

\* cos and sin of a multiple of 90 degrees (Transform.rotate snaps the
\* floating-point cosine and sine of such angles to 0, 1 and -1).
CosDeg(a) == CASE a % 360 = 0 -> 1 [] a % 360 = 90 -> 0
               [] a % 360 = 180 -> -1 [] a % 360 = 270 -> 0
SinDeg(a) == CASE a % 360 = 0 -> 0 [] a % 360 = 90 -> 1
               [] a % 360 = 180 -> 0 [] a % 360 = 270 -> -1
RotateT(a) == << CosDeg(a), SinDeg(a), -SinDeg(a), CosDeg(a), 0, 0 >>

\* tan of a multiple of 45 degrees that has one, taken as exact (the float
\* math.tan gives for 45 degrees is one unit in the last place below 1).
TanDeg(a) == CASE a % 180 = 0 -> 0 [] a % 180 = 45 -> 1 [] a % 180 = 135 -> -1
\* Transform.skew(x, y), in degrees
SkewT(x, y) == << 1, TanDeg(y), TanDeg(x), 1, 0, 0 >>

\* -------------------------------------------------------------- font data

\* fvar axis tags, in axis order.
axisTags == << "wght", "wdth" >>

numAxes == Len(axisTags)

\* Index (from 1) of an axis tag in axisTags.
AxisPos(tag) == CHOOSE k \in 1..numAxes : axisTags[k] = tag

\* {tag: value for tag, value in zip(axisTags, normalizedAxisValues)}.
axisValuesToLocation(normalizedAxisValues, tags) ==
    [ t \in { tags[k] : k \in 1..Len(tags) } |->
        normalizedAxisValues[CHOOSE k \in 1..Len(tags) : tags[k] = t] ]

\* Glyphs with an outline and no COLR record.  The outline of "E" is empty
\* (CGPathGetBoundingBox of its path is CGRectNull).
OutlineGlyphs == { "A", "B", "E" }

EmptyOutline(g) == g = "E"

\* The path canvas.newPath() holds after _drawGlyphOutline(glyphName, path);
\* a path is known by the glyph whose outline it holds.
DrawGlyphOutline(glyphName) == glyphName

\* CG.CGPathGetBoundingBox(path.path) == CG.CGRectNull
PathIsEmpty(path) == EmptyOutline(path)

\* The text foreground colour (r, g, b, a).
textColor == << RatInt(0), RatInt(0), RatInt(0), RatInt(1) >>

\* CPAL palettes as stored in the font: 8-bit (red, green, blue, alpha).
CPALPalettes ==
    << << << 255, 0, 0, 255 >>, << 0, 0, 255, 255 >>, << 0, 255, 0, 51 >> >> >>

\* _unpackPalettes: every component divided by 255.
unpackPalettes(pals) ==
    [ p \in 1..Len(pals) |->
        [ c \in 1..Len(pals[p]) |->
            << Rat(pals[p][c][1], 255), Rat(pals[p][c][2], 255),
               Rat(pals[p][c][3], 255), Rat(pals[p][c][4], 255) >> ] ]

palettes == unpackPalettes(CPALPalettes)

paletteIndex == 0

\* COLRv0 layer records of the font: glyph name -> [(name, colorID)].
colrV0Glyphs ==
    [ g \in { "colr0", "both" } |->
        IF g = "colr0"
        THEN << [ name |-> "A", colorID |-> 0 ],
                [ name |-> "B", colorID |-> 1 ],
                [ name |-> "E", colorID |-> ForegroundIndex ] >>
        ELSE << [ name |-> "B", colorID |-> ForegroundIndex ] >> ]

\* ----------------------------------------------------------------- paints

PaintColrLayers(s, n) ==
    [ Format |-> "PaintColrLayers", FirstLayerIndex |-> s, NumLayers |-> n ]
PaintSolid(idx, alpha) ==
    [ Format |-> "PaintSolid",
      Color |-> [ PaletteIndex |-> idx, Alpha |-> alpha ] ]
\* Alpha of a PaintVarSolid is a VariableValue (value, varIdx).
PaintVarSolid(idx, base, varIdx) ==
    [ Format |-> "PaintVarSolid",
      Color |-> [ PaletteIndex |-> idx,
                  Alpha |-> [ value |-> base, varIdx |-> varIdx ] ] ]
\* A ColorStop record and a ColorLine table.
ColorStop(offset, idx, alpha) ==
    [ StopOffset |-> offset,
      Color |-> [ PaletteIndex |-> idx, Alpha |-> alpha ] ]
ColorLine(extend, stops) == [ Extend |-> extend, ColorStop |-> stops ]
\* A PaintLinearGradient table with anchors p0, p1, p2.
LinearGradient(line, p0, p1, p2) ==
    [ Format |-> "PaintLinearGradient", ColorLine |-> line,
      x0 |-> p0[1], y0 |-> p0[2], x1 |-> p1[1], y1 |-> p1[2],
      x2 |-> p2[1], y2 |-> p2[2] ]
\* The linear gradients of the font: p1 - p0 at a right angle to p2 - p0;
\* at another angle, with stops outside [0, 1]; with one stop; with p2 = p0.
PaintLinearGradient ==
    LinearGradient(ColorLine("pad",
                             << ColorStop(Rat(1, 4), 0, RatInt(1)),
                                ColorStop(Rat(3, 4), 1, RatInt(1)) >>),
                   << 0, 0 >>, << 10, 0 >>, << 0, 10 >>)
ObliqueLinearGradient ==
    LinearGradient(ColorLine("repeat",
                             << ColorStop(Rat(1, 2), 1, Rat(1, 2)),
                                ColorStop(Rat(3, 2), 0, RatInt(1)),
                                ColorStop(Rat(-1, 2), 2, RatInt(1)) >>),
                   << 1, 1 >>, << 5, 3 >>, << 3, 5 >>)
OneStopLinearGradient ==
    LinearGradient(ColorLine("reflect",
                             << ColorStop(Rat(1, 2), ForegroundIndex,
                                          RatInt(1)) >>),
                   << 2, 0 >>, << 0, 4 >>, << 4, -2 >>)
NoAngleLinearGradient ==
    LinearGradient(ColorLine("pad",
                             << ColorStop(RatInt(0), 0, RatInt(1)),
                                ColorStop(RatInt(1), 1, RatInt(1)) >>),
                   << 3, 4 >>, << 10, 0 >>, << 3, 4 >>)
PaintRadialGradient == [ Format |-> "PaintRadialGradient" ]
PaintSweepGradient == [ Format |-> "PaintSweepGradient" ]
PaintGlyph(g, p) == [ Format |-> "PaintGlyph", Glyph |-> g, Paint |-> p ]
PaintColrGlyph(g) == [ Format |-> "PaintColrGlyph", Glyph |-> g ]
\* An Affine2x3 table.
Affine2x3(a, b, c, d, e, f) ==
    [ xx |-> a, yx |-> b, xy |-> c, yy |-> d, dx |-> e, dy |-> f ]
PaintTransform(t, p) ==
    [ Format |-> "PaintTransform", Transform |-> t, Paint |-> p ]
PaintTranslate(x, y, p) ==
    [ Format |-> "PaintTranslate", dx |-> x, dy |-> y, Paint |-> p ]
PaintRotate(cx, cy, a, p) ==
    [ Format |-> "PaintRotate", centerX |-> cx, centerY |-> cy, angle |-> a,
      Paint |-> p ]
PaintScale(cx, cy, xs, ys, p) ==
    [ Format |-> "PaintScale", centerX |-> cx, centerY |-> cy, xScale |-> xs,
      yScale |-> ys, Paint |-> p ]
PaintSkew(cx, cy, xa, ya, p) ==
    [ Format |-> "PaintSkew", centerX |-> cx, centerY |-> cy,
      xSkewAngle |-> xa, ySkewAngle |-> ya, Paint |-> p ]
PaintComposite(src, backdrop) ==
    [ Format |-> "PaintComposite", SourcePaint |-> src,
      BackdropPaint |-> backdrop ]
PaintLocation(coords, p) ==
    [ Format |-> "PaintLocation", Coordinate |-> coords, Paint |-> p ]

Coord(i, v) == [ AxisIndex |-> i, AxisValue |-> v ]

\* PAINT_VAR_MAPPING.get(paint.Format): the non-var format of a PaintVarXxx
\* format, None for a regular format.
PAINT_VAR_MAPPING(format) ==
    IF format = "PaintVarSolid" THEN "PaintSolid" ELSE None

\* The name _drawPaint builds its handler from ("_draw" + paintName).
paintName(paint) ==
    IF PAINT_VAR_MAPPING(paint.Format) = None
    THEN paint.Format
    ELSE PAINT_VAR_MAPPING(paint.Format)

\* colrTable.LayerV1List.Paint, indexed from 0 as in the source.
LayerV1List ==
    << PaintGlyph("A", PaintSolid(0, RatInt(1))),
       PaintTranslate(3, 0, PaintGlyph("B", PaintSolid(1, Rat(1, 2)))),
       PaintSolid(0, RatInt(1)),
       PaintGlyph("B", PaintVarSolid(0, RatInt(1), VarIdx(0, 0))),
       PaintColrLayers(0, 2),
       PaintRotate(1, 0, 90,
           PaintGlyph("A", PaintTransform(Affine2x3(1, 0, 2, 1, 0, 0),
               PaintSolid(ForegroundIndex, RatInt(1))))),
       PaintLocation(<< Coord(0, F2Dot14One) >>,
           PaintGlyph("A", PaintVarSolid(2, RatInt(1), VarIdx(0, 0)))),
       PaintGlyph("A", PaintVarSolid(2, RatInt(1), VarIdx(0, 0))),
       PaintSkew(1, 1, 45, 0,
           PaintTranslate(2, 0,
               PaintGlyph("B", PaintSkew(0, 2, 0, 135,
                   PaintScale(0, 0, 2, 1, PaintLinearGradient))))) >>

NumLayerRecords == Len(LayerV1List)

LayerPaint(i) == LayerV1List[i + 1]

\* The paints that end a generated paint tree.
TerminalPaints ==
    { PaintSolid(0, Rat(1, 2)),
      PaintVarSolid(1, RatInt(1), VarIdx(0, 0)),
      PaintVarSolid(1, RatInt(1), NoVarIdx),
      PaintLinearGradient, PaintRadialGradient, PaintSweepGradient,
      ObliqueLinearGradient, OneStopLinearGradient, NoAngleLinearGradient,
      PaintComposite(PaintSolid(0, RatInt(1)), PaintSolid(1, RatInt(1))),
      PaintColrGlyph("both"),
      PaintColrLayers(0, 2), PaintColrLayers(1, 2), PaintColrLayers(3, 1),
      PaintColrLayers(4, 2), PaintColrLayers(6, 2), PaintColrLayers(7, 2),
      PaintColrLayers(8, 2) }

\* A wrapper paint around child paint p.
WrapperPaints(p) ==
    { PaintGlyph("A", p), PaintGlyph("E", p),
      PaintTranslate(1, 2, p),
      PaintScale(1, 1, 2, 3, p),
      PaintLocation(<< Coord(0, F2Dot14One) >>, p),
      PaintLocation(<< Coord(1, F2Dot14One \div 2), Coord(2, F2Dot14One) >>, p) }

\* The paint trees of at most d nested wrappers.
RECURSIVE PaintTrees(_)
PaintTrees(d) ==
    IF d = 0
    THEN TerminalPaints
    ELSE TerminalPaints \cup UNION { WrapperPaints(p) : p \in PaintTrees(d - 1) }

\* The BaseGlyphV1Record of "both", which also has a COLRv0 record.
BothPaint == PaintTranslate(5, 0, PaintGlyph("A", PaintSolid(1, RatInt(1))))

\* -------------------------------------------------- variation store (COLR)

\* The variation store: for each varIdx one region on one axis, peaking at
\* 1.0 with support [0, 1], and the delta it carries (in the field's integer
\* units).
VarStore ==
    [ v \in { VarIdx(0, 0), VarIdx(0, 1) } |->
        IF v = VarIdx(0, 0) THEN [ axis |-> "wght", delta |-> -8192 ]
                 ELSE [ axis |-> "wdth", delta |-> 4096 ] ]

\* The value of an axis in an instancer location (a dict); absent axes are
\* at 0.
LocationGet(location, tag) ==
    IF tag \in DOMAIN location THEN location[tag] ELSE 0

\* The support scalar of varIdx's region at a location (axis values in
\* F2Dot14 units).
RegionScalar(varIdx, location) ==
    LET v == LocationGet(location, VarStore[varIdx].axis)
    IN  IF v <= 0 THEN RatInt(0)
        ELSE IF v >= F2Dot14One THEN RatInt(1)
        ELSE Rat(v, F2Dot14One)

\* ------------------------------------------------------------------ state

VARIABLES
    colrV1Glyphs,      \* font: glyph name -> BaseGlyphV1Record (read-only)
    currentPath,       \* font.currentPath
    currentTransform,  \* font.currentTransform
    hbCoords,          \* hbFont's normalized coordinates, F2Dot14 units
    instancer,         \* font.instancer: present, location, _scalars cache
    canvas,            \* CoreGraphicsCanvas: CTM, clip, gstate stack, clipIsEmpty
    stack,             \* the _drawPaint calls in progress, outermost first
    exc,               \* the error being raised, or None
    phase,             \* "idle", "drawing" (inside drawGlyph) or "failed"
    nDrawn,            \* drawGlyph calls that have returned
    glyphName,         \* the glyph of the current (or last) drawGlyph call
    log,               \* history: canvas draw calls of that drawGlyph call
    lastExit,          \* history: the last scope left, with its entry state
    emptyClipSeen,     \* history: clipPath got an empty path in an open scope
    glyphEntry,        \* history: the state at the drawGlyph call
    call               \* the last call of a function made on its own

\* The state of the font and the canvas while glyphs are drawn.
drawVars == << colrV1Glyphs, currentPath, currentTransform, hbCoords,
               instancer, canvas, stack, exc, phase, nDrawn, glyphName, log,
               lastExit, emptyClipSeen, glyphEntry >>

vars == << drawVars, call >>

PyTrue == "True"
PyFalse == "False"

\* ----------------------------------------------------------------- canvas

\* CoreGraphicsCanvas(context): a fresh context, clipIsEmpty = None.
CanvasInit ==
    [ ctm |-> Identity, clip |-> << >>, gstack |-> << >>, clipIsEmpty |-> None ]

\* savedState, up to its yield: CGContextSaveGState.  (The local clipIsEmpty
\* it keeps is held by the frame that entered the scope.)
savedStateEnter(c) ==
    [ c EXCEPT !.gstack = Append(c.gstack, [ ctm |-> c.ctm, clip |-> c.clip ]) ]

\* The end of savedState with the transform left as the scope made it.
savedStateExitKeepsCTM(c, clipIsEmpty) ==
    LET g == c.gstack[Len(c.gstack)]
    IN  [ ctm |-> c.ctm, clip |-> g.clip,
          gstack |-> SubSeq(c.gstack, 1, Len(c.gstack) - 1),
          clipIsEmpty |-> clipIsEmpty ]

\* The end of savedState with the clip left as the scope made it.
savedStateExitKeepsClip(c, clipIsEmpty) ==
    LET g == c.gstack[Len(c.gstack)]
    IN  [ ctm |-> g.ctm, clip |-> c.clip,
          gstack |-> SubSeq(c.gstack, 1, Len(c.gstack) - 1),
          clipIsEmpty |-> clipIsEmpty ]

\* savedState, after its yield: CGContextRestoreGState, then clipIsEmpty is
\* set back to the local kept at entry.
savedStateExit(c, clipIsEmpty) ==
    LET g == c.gstack[Len(c.gstack)]
    IN  [ ctm |-> g.ctm, clip |-> g.clip,
          gstack |-> SubSeq(c.gstack, 1, Len(c.gstack) - 1),
          clipIsEmpty |-> clipIsEmpty ]

\* transform: CGContextConcatCTM.
canvasTransform(c, t) == [ c EXCEPT !.ctm = Compose(c.ctm, t) ]

\* clipPath: an empty path only sets the flag; any other path clears the flag
\* and is intersected into the clip (recorded with the CTM it is seen under).
clipPath(c, path) ==
    IF PathIsEmpty(path)
    THEN [ c EXCEPT !.clipIsEmpty = PyTrue ]
    ELSE [ c EXCEPT !.clipIsEmpty = PyFalse,
                    !.clip = Append(c.clip, [ path |-> path, ctm |-> c.ctm ]) ]

\* drawPathSolid returning at once on an empty path, as the gradients do.
drawPathSolidSkipsEmptyPath(c, path) ==
    IF c.clipIsEmpty = PyTrue THEN "skip"
    ELSE IF path = None THEN "AttributeError"
    ELSE IF PathIsEmpty(path) THEN "skip"
    ELSE "fill"

\* The outcome of drawPathSolid(path, color): "skip" (returns at once),
\* "AttributeError" (path.path of None) or "fill" (CGContextFillPath).
drawPathSolid(c, path) ==
    IF c.clipIsEmpty = PyTrue THEN "skip"
    ELSE IF path = None THEN "AttributeError"
    ELSE "fill"

\* The outcome of drawPathLinearGradient and drawPathRadialGradient.
drawPathGradient(c, path) ==
    IF c.clipIsEmpty = PyTrue THEN "skip"
    ELSE IF path = None THEN "AttributeError"
    ELSE IF PathIsEmpty(path) THEN "skip"
    ELSE "fill"

\* The canvas with gradientTransform concatenated before the path is added
\* to the clip.
gradientCanvasTransformFirst(c, path, gradientTransform) ==
    LET c1 == canvasTransform(savedStateEnter(c), gradientTransform)
    IN  [ c1 EXCEPT !.clip = Append(c1.clip, [ path |-> path, ctm |-> c1.ctm ]) ]

\* The canvas at the CGContextDraw...Gradient call: inside savedState, the
\* path added to the clip, then gradientTransform concatenated.
gradientCanvas(c, path, gradientTransform) ==
    LET c1 == savedStateEnter(c)
        c2 == [ c1 EXCEPT !.clip = Append(c1.clip, [ path |-> path, ctm |-> c1.ctm ]) ]
    IN  canvasTransform(c2, gradientTransform)

\* The canvas when drawPathLinearGradient or drawPathRadialGradient is
\* over: as it was if the method returned at once or raised, else as the
\* end of its savedState leaves it.
gradientCanvasAfter(c, path, gradientTransform) ==
    IF drawPathGradient(c, path) = "fill"
    THEN savedStateExit(gradientCanvas(c, path, gradientTransform),
                        c.clipIsEmpty)
    ELSE c

\* -------------------------------------------------------------- instancer

\* VarStoreInstancer.setLocation: the location is replaced and the caches
\* are dropped.
instancerSetLocation(inst, location) ==
    [ inst EXCEPT !.location = location, !.scalars = << >> ]

\* instancer[varIdx]: the delta at the instancer's location.  The region's
\* scalar is computed once per location and kept in the cache.
instancerScalar(inst, varIdx) ==
    IF varIdx \in DOMAIN inst.scalars
    THEN inst.scalars[varIdx]
    ELSE RegionScalar(varIdx, inst.location)

instancerGetItem(inst, varIdx) ==
    RatMul(RatInt(VarStore[varIdx].delta), instancerScalar(inst, varIdx))

instancerAfterGetItem(inst, varIdx) ==
    [ inst EXCEPT !.scalars =
        [ v \in DOMAIN inst.scalars \cup { varIdx } |->
            IF v \in DOMAIN inst.scalars THEN inst.scalars[v]
            ELSE RegionScalar(varIdx, inst.location) ] ]

\* _conversionFactors.get(type(converter), 1)
conversionFactor(converter) ==
    CASE converter = "VarF2Dot14" -> Rat(1, F2Dot14One)
      [] converter = "VarFixed" -> Rat(1, FixedOne)
      [] OTHER -> RatInt(1)

\* __getattr__ with the instancer subscripted whatever varIdx is.
PaintVarWrapperGetattrNoSentinel(value, converter, inst) ==
    IF ~inst.present
    THEN [ err |-> "TypeError", value |-> RatInt(0) ]
    ELSE IF value.varIdx \notin DOMAIN VarStore
    THEN [ err |-> "IndexError", value |-> RatInt(0) ]
    ELSE [ err |-> None,
           value |-> RatAdd(value.value,
                            RatMul(instancerGetItem(inst, value.varIdx),
                                   conversionFactor(converter))) ]

\* PaintVarWrapper.__getattr__ on a VariableValue field: the outcome
\* ("ok" with the value, or the TypeError of subscripting a None instancer).
PaintVarWrapperGetattr(value, converter, inst) ==
    IF value.varIdx # NoVarIdx
    THEN IF inst.present
         THEN [ err |-> None,
                value |-> RatAdd(value.value,
                                 RatMul(instancerGetItem(inst, value.varIdx),
                                        conversionFactor(converter))) ]
         ELSE [ err |-> "TypeError", value |-> RatInt(0) ]
    ELSE [ err |-> None, value |-> value.value ]

\* ----------------------------------------------------------------- colour

\* The fields of a font that _getColor reads.  A font without a CPAL table
\* has palettes None (hasPalettes FALSE).
FontColors(text, hasPalettes, pals, index) ==
    [ textColor |-> text, hasPalettes |-> hasPalettes, palettes |-> pals,
      paletteIndex |-> index ]

\* Those fields of the font whose glyphs are drawn.
fontColors == FontColors(textColor, TRUE, palettes, paletteIndex)

\* a *= alpha; return r, g, b, a
ScaleAlpha(c, alpha) == << c[1], c[2], c[3], RatMul(c[4], alpha) >>

\* _getColor with the palettes subscripted before the foreground test.
getColorOfPalettesFirst(self, colorIndex, alpha) ==
    IF ~self.hasPalettes
    THEN [ err |-> "TypeError", value |-> << >> ]
    ELSE IF self.paletteIndex + 1 \notin DOMAIN self.palettes
    THEN [ err |-> "IndexError", value |-> << >> ]
    ELSE IF colorIndex = ForegroundIndex
    THEN [ err |-> None, value |-> ScaleAlpha(self.textColor, alpha) ]
    ELSE IF colorIndex + 1 \notin DOMAIN self.palettes[self.paletteIndex + 1]
    THEN [ err |-> "IndexError", value |-> << >> ]
    ELSE [ err |-> None,
           value |-> ScaleAlpha(
               self.palettes[self.paletteIndex + 1][colorIndex + 1], alpha) ]

\* self._getColor(colorIndex, alpha): the colour, or the error of
\* subscripting palettes None or of an index out of range.
getColorOf(self, colorIndex, alpha) ==
    IF colorIndex = ForegroundIndex
    THEN [ err |-> None, value |-> ScaleAlpha(self.textColor, alpha) ]
    ELSE IF ~self.hasPalettes
    THEN [ err |-> "TypeError", value |-> << >> ]
    ELSE IF \/ self.paletteIndex + 1 \notin DOMAIN self.palettes
            \/ colorIndex + 1
                  \notin DOMAIN self.palettes[self.paletteIndex + 1]
    THEN [ err |-> "IndexError", value |-> << >> ]
    ELSE [ err |-> None,
           value |-> ScaleAlpha(
               self.palettes[self.paletteIndex + 1][colorIndex + 1], alpha) ]

\* _getColor(colorIndex, alpha) on the font whose glyphs are drawn; its
\* paints name colours that its palette has.
getColor(colorIndex, alpha) == getColorOf(fontColors, colorIndex, alpha).value

\* ------------------------------------------------------------ colour lines

\* min(stops) and max(stops) of a non-empty list.
MinOf(stops) ==
    CHOOSE s \in { stops[i] : i \in 1..Len(stops) } :
        \A i \in 1..Len(stops) : RatLeq(s, stops[i])

MaxOf(stops) ==
    CHOOSE s \in { stops[i] : i \in 1..Len(stops) } :
        \A i \in 1..Len(stops) : RatLeq(stops[i], s)

\* _normalizeColorLine with minStop and maxStop left as they are when all
\* stops are equal.
normalizeColorLineKeepsBounds(colorLine) ==
    IF colorLine = << >>
    THEN [ err |-> "ValueError" ]
    ELSE LET stops == [ i \in 1..Len(colorLine) |-> colorLine[i][1] ]
             minStop == MinOf(stops)
             maxStop == MaxOf(stops)
         IN  [ err |-> None, minStop |-> minStop, maxStop |-> maxStop,
               colorLine |->
                 IF minStop # maxStop
                 THEN [ i \in 1..Len(colorLine) |->
                          << RatDiv(RatSub(colorLine[i][1], minStop),
                                    RatSub(maxStop, minStop)),
                             colorLine[i][2] >> ]
                 ELSE colorLine ]

\* _normalizeColorLine(colorLine), colorLine a list of (stopOffset, color):
\* (minStop, maxStop, colorLine), or the ValueError of min() of no stops.
normalizeColorLine(colorLine) ==
    IF colorLine = << >>
    THEN [ err |-> "ValueError" ]
    ELSE LET stops == [ i \in 1..Len(colorLine) |-> colorLine[i][1] ]
             minStop == MinOf(stops)
             maxStop == MaxOf(stops)
         IN  IF minStop # maxStop
             THEN LET stopExtent == RatSub(maxStop, minStop)
                  IN  [ err |-> None, minStop |-> minStop,
                        maxStop |-> maxStop,
                        colorLine |->
                          [ i \in 1..Len(colorLine) |->
                              << RatDiv(RatSub(colorLine[i][1], minStop),
                                        stopExtent),
                                 colorLine[i][2] >> ] ]
             ELSE [ err |-> None, minStop |-> RatInt(0),
                    maxStop |-> RatInt(1), colorLine |-> colorLine ]

\* _readColorLine(colorLineTable): the colour of every stop is looked up,
\* then the list is normalised; the first failing lookup raises.
readColorLine(self, colorLineTable) ==
    LET stops == colorLineTable.ColorStop
        colors == [ i \in 1..Len(stops) |->
                      getColorOf(self, stops[i].Color.PaletteIndex,
                                 stops[i].Color.Alpha) ]
        failed == { i \in 1..Len(stops) : colors[i].err # None }
    IN  IF failed # { }
        THEN [ err |-> colors[CHOOSE i \in failed :
                                  \A j \in failed : i <= j].err ]
        ELSE normalizeColorLine([ i \in 1..Len(stops) |->
                                    << stops[i].StopOffset,
                                       colors[i].value >> ])

\* ------------------------------------------------------- gradient geometry

\* _interpolatePoints(pt1, pt2, f)
interpolatePoints(pt1, pt2, f) ==
    << RatAdd(pt1[1], RatMul(f, RatSub(pt2[1], pt1[1]))),
       RatAdd(pt1[2], RatMul(f, RatSub(pt2[2], pt1[2]))) >>

\* The two points (p0, p1): p2 is not looked at.
reduceThreeAnchorsToTwoKeepsP1(p) ==
    [ err |-> None,
      pt1 |-> << RatInt(p.x0), RatInt(p.y0) >>,
      pt2 |-> << RatInt(p.x1), RatInt(p.y1) >> ]

\* _reduceThreeAnchorsToTwo(p): ((x0, y0), (x, y)), or the
\* ZeroDivisionError of the division by squaredNorm02 = 0.
reduceThreeAnchorsToTwo(p) ==
    LET x02 == p.x2 - p.x0
        y02 == p.y2 - p.y0
        x01 == p.x1 - p.x0
        y01 == p.y1 - p.y0
        squaredNorm02 == x02 * x02 + y02 * y02
    IN  IF squaredNorm02 = 0
        THEN [ err |-> "ZeroDivisionError" ]
        ELSE LET k == Rat(x01 * x02 + y01 * y02, squaredNorm02)
                 x == RatSub(RatInt(p.x1), RatMul(k, RatInt(x02)))
                 y == RatSub(RatInt(p.y1), RatMul(k, RatInt(y02)))
             IN  [ err |-> None,
                   pt1 |-> << RatInt(p.x0), RatInt(p.y0) >>,
                   pt2 |-> << x, y >> ]

\* _drawPaintLinearGradient up to the canvas call: the arguments colorLine,
\* pt1, pt2 and extendMode of drawPathLinearGradient, or what was raised.
linearGradientArgs(self, paint) ==
    LET line == readColorLine(self, paint.ColorLine)
        two == reduceThreeAnchorsToTwo(paint)
    IN  IF line.err # None THEN [ err |-> line.err ]
        ELSE IF two.err # None THEN [ err |-> two.err ]
        ELSE [ err |-> None,
               colorLine |-> line.colorLine,
               pt1 |-> interpolatePoints(two.pt1, two.pt2, line.minStop),
               pt2 |-> interpolatePoints(two.pt1, two.pt2, line.maxStop),
               extendMode |-> paint.ColorLine.Extend ]

\* ------------------------------------------------------------ glyph bounds

Min(a, b) == IF a <= b THEN a ELSE b
Max(a, b) == IF a >= b THEN a ELSE b

\* fontTools.misc.arrayTools.unionRect
unionRect(rect1, rect2) ==
    << Min(rect1[1], rect2[1]), Min(rect1[2], rect2[2]),
       Max(rect1[3], rect2[3]), Max(rect1[4], rect2[4]) >>

\* _getGlyphBounds(name): hbFont's extents (x_bearing, y_bearing,
\* width, height) turned into (xMin, yMin, xMax, yMax), statement by
\* statement.
getGlyphBoundsOfOutline(self, name) ==
    LET x == self.extents[name][1]
        y0 == self.extents[name][2]
        w0 == self.extents[name][3]
        h0 == self.extents[name][4]
        y == y0 + h0
        h1 == -h0
        w == w0 + x
        h == h1 + y
    IN  << x, y, w, h >>

\* The loop of getGlyphBounds over the COLRv0 layers, bounds None at first.
RECURSIVE unionOfLayers(_, _, _)
unionOfLayers(self, layers, bounds) ==
    IF layers = << >> THEN bounds
    ELSE LET layerBounds == getGlyphBoundsOfOutline(self, Head(layers).name)
         IN  unionOfLayers(self, Tail(layers),
                 IF bounds.isNone
                 THEN [ isNone |-> FALSE, rect |-> layerBounds ]
                 ELSE [ isNone |-> FALSE,
                        rect |-> unionRect(layerBounds, bounds.rect) ])

\* getGlyphBounds with the COLRv0 record looked up first.
getGlyphBoundsOfV0First(self, name) ==
    IF name \in DOMAIN self.colrV0Glyphs
    THEN unionOfLayers(self, self.colrV0Glyphs[name],
                       [ isNone |-> TRUE ])
    ELSE [ isNone |-> FALSE,
           rect |-> getGlyphBoundsOfOutline(self, name) ]

\* self.getGlyphBounds(name), self the font's extents and COLR
\* records: a rectangle or None.
getGlyphBoundsOf(self, name) ==
    IF \/ name \in self.colrV1Glyphs
       \/ name \notin DOMAIN self.colrV0Glyphs
    THEN [ isNone |-> FALSE,
           rect |-> getGlyphBoundsOfOutline(self, name) ]
    ELSE unionOfLayers(self, self.colrV0Glyphs[name],
                       [ isNone |-> TRUE ])

\* ------------------------------------------------------------ glyph lines

\* A GlyphInfo of a shaped line.
GlyphInfo(name, xAdvance, yAdvance, xOffset, yOffset) ==
    [ name |-> name, xAdvance |-> xAdvance, yAdvance |-> yAdvance,
      xOffset |-> xOffset, yOffset |-> yOffset ]

\* fontTools.misc.arrayTools.offsetRect
offsetRect(rect, dx, dy) ==
    << rect[1] + dx, rect[2] + dy, rect[3] + dx, rect[4] + dy >>

\* The loop of calcGlyphLineBounds over the glyphs left, from the locals
\* st (bounds, x, y); placed keeps for every glyph the (dx, dy) its bounds
\* were offset by, None for a glyph without bounds.
RECURSIVE calcGlyphLineBoundsLoop(_, _, _)
calcGlyphLineBoundsLoop(font, glyphs, st) ==
    IF glyphs = << >> THEN st
    ELSE LET glyph == Head(glyphs)
             glyphBounds == getGlyphBoundsOf(font, glyph.name)
         IN  IF glyphBounds.isNone
             THEN calcGlyphLineBoundsLoop(font, Tail(glyphs),
                      [ st EXCEPT !.placed = Append(st.placed, None) ])
             ELSE LET dx == st.x + glyph.xOffset
                      dy == st.y + glyph.yOffset
                      moved == offsetRect(glyphBounds.rect, dx, dy)
                  IN  calcGlyphLineBoundsLoop(font, Tail(glyphs),
                          [ bounds |->
                              IF st.bounds.isNone
                              THEN [ isNone |-> FALSE, rect |-> moved ]
                              ELSE [ isNone |-> FALSE,
                                     rect |-> unionRect(st.bounds.rect, moved) ],
                            x |-> st.x + glyph.xAdvance,
                            y |-> st.y + glyph.yAdvance,
                            placed |-> Append(st.placed, << dx, dy >>) ])

\* calcGlyphLineBounds(glyphLine, font)
calcGlyphLineBounds(glyphLine, font) ==
    calcGlyphLineBoundsLoop(font, glyphLine,
        [ bounds |-> [ isNone |-> TRUE ], x |-> 0, y |-> 0, placed |-> << >> ])

\* The loop of renderText over the glyphs left, on canvas c: inside
\* savedState the canvas is moved by the glyph's offset and the glyph is
\* drawn (a drawGlyph that returns leaves the canvas as it was), then the
\* canvas is moved by the advance.  drawn keeps the canvas transform of
\* every drawGlyph call.
RECURSIVE renderTextLoop(_, _, _)
renderTextLoop(glyphs, c, drawn) ==
    IF glyphs = << >> THEN drawn
    ELSE LET glyph == Head(glyphs)
             c1 == canvasTransform(savedStateEnter(c),
                                   TranslateT(glyph.xOffset, glyph.yOffset))
             c2 == savedStateExit(c1, c.clipIsEmpty)
             c3 == canvasTransform(c2, TranslateT(glyph.xAdvance,
                                                  glyph.yAdvance))
         IN  renderTextLoop(Tail(glyphs), c3, Append(drawn, c1.ctm))

\* ----------------------------------------------------- frames and history

\* No function has been called on its own.
NoCall == [ fn |-> None ]

\* What a scope's entry and exit are compared on.
Snap(path, transform, c, coords, inst, empty) ==
    [ currentPath |-> path, currentTransform |-> transform,
      ctm |-> c.ctm, clip |-> c.clip, clipIsEmpty |-> c.clipIsEmpty,
      depth |-> Len(c.gstack), hbCoords |-> coords,
      location |-> inst.location, emptyClipSeen |-> empty ]

Snapshot ==
    Snap(currentPath, currentTransform, canvas, hbCoords, instancer,
         emptyClipSeen)

NoSnapshot ==
    [ currentPath |-> None, currentTransform |-> << >>, ctm |-> << >>,
      clip |-> << >>, clipIsEmpty |-> None, depth |-> 0, hbCoords |-> << >>,
      location |-> << >>, emptyClipSeen |-> FALSE ]

\* A _drawPaint call: the paint, where its handler stands ("call": entered;
\* "wait": inside its with-block or child call; "raised": it raised), and
\* the locals of the context managers it has entered.
NewFrame(paint) ==
    [ paint |-> paint, pc |-> "call",
      i |-> 0,                      \* _drawPaintColrLayers: layers done
      clipPath |-> None,            \* _ensureClipAndPushPath
      transform |-> << >>,          \* _ensureClipAndPushPath
      clipIsEmpty |-> None,         \* savedState
      orgPath |-> None,             \* _pushPath: currentPath
      orgTransform |-> << >>,       \* _pushTransform: currentTransform
      orgAxisValues |-> << >>,      \* _pushNormalizedLocation
      orgLocation |-> << >>,        \* _pushNormalizedLocation
      entry |-> NoSnapshot,         \* history: the state at scope entry
      drawn |-> << >> ]             \* history: layer indices drawn

NoExit ==
    [ kind |-> "none", how |-> "none", format |-> None, entry |-> NoSnapshot,
      inner |-> NoSnapshot, after |-> NoSnapshot, first |-> 0, num |-> 0,
      drawn |-> << >> ]

\* The record of leaving frame f's scope ("scope": _ensureClipAndPushPath;
\* "location": _pushNormalizedLocation; "layers": a whole ColrLayers paint).
ExitRecord(kind, how, f, entry, after) ==
    [ kind |-> kind, how |-> how, format |-> f.paint.Format, entry |-> entry,
      inner |-> Snapshot, after |-> after,
      first |-> IF kind = "layers" THEN f.paint.FirstLayerIndex ELSE 0,
      num |-> IF kind = "layers" THEN f.paint.NumLayers ELSE 0,
      drawn |-> f.drawn ]

Top == stack[Len(stack)]

SetTop(f) == [ stack EXCEPT ![Len(stack)] = f ]

\* The paints above the one being drawn, outermost first: format, the layer
\* being drawn (ColrLayers) and the coordinates (Location).
Ancestors ==
    [ k \in 1..(Len(stack) - 1) |->
        LET p == stack[k].paint
        IN  [ Format |-> p.Format, paint |-> p,
              layer |-> IF p.Format = "PaintColrLayers"
                        THEN stack[k].drawn[Len(stack[k].drawn)] ELSE -1,
              Coordinate |-> IF p.Format = "PaintLocation"
                             THEN p.Coordinate ELSE << >> ] ]

\* One canvas draw call: the method, the handler that made it, its
\* arguments, whether the backend drew, and the canvas it drew on.  color is
\* the colour of drawPathSolid; of drawPathLinearGradient it holds the
\* arguments colorLine, pt1, pt2 and extendMode.
LogEntry(op, origin, paint, path, color, gradTransform, outcome, c, ancs) ==
    [ op |-> op, origin |-> origin, paint |-> paint, path |-> path,
      color |-> color, gradientTransform |-> gradTransform,
      performed |-> (outcome = "fill"),
      raised |-> (outcome = "AttributeError"),
      ctm |-> c.ctm, clip |-> c.clip, clipIsEmpty |-> c.clipIsEmpty,
      depth |-> Len(c.gstack),
      emptyClipSeen |-> emptyClipSeen, ancestors |-> ancs,
      hbCoords |-> hbCoords ]

\* ------------------------------------------------------------- drawGlyph

\* The glyph names a caller draws.
RunGlyphs == { "colr1", "both", "colr0", "A" }

\* The choice with the COLRv0 record looked up first.
drawGlyphInterpreterV0First(name) ==
    IF name \in DOMAIN colrV0Glyphs THEN "COLRv0"
    ELSE IF name \in DOMAIN colrV1Glyphs THEN "COLRv1"
    ELSE "NoColor"

\* drawGlyph's choice of interpreter.
drawGlyphInterpreter(name) ==
    IF name \in DOMAIN colrV1Glyphs THEN "COLRv1"
    ELSE IF name \in DOMAIN colrV0Glyphs THEN "COLRv0"
    ELSE "NoColor"

\* drawGlyph on a glyph with a COLRv1 record, up to the _drawPaint call on
\* its root paint.
DrawGlyphCOLRv1 ==
    /\ phase = "idle"
    /\ nDrawn < MaxRun
    /\ \E name \in RunGlyphs :
        /\ drawGlyphInterpreter(name) = "COLRv1"
        /\ glyphName' = name
        /\ stack' = << NewFrame(colrV1Glyphs[name].Paint) >>
    /\ currentTransform' = Identity
    /\ currentPath' = None
    /\ phase' = "drawing"
    /\ log' = << >>
    /\ lastExit' = NoExit
    /\ glyphEntry' = Snapshot
    /\ UNCHANGED << call, colrV1Glyphs, hbCoords, instancer, canvas, exc, nDrawn,
                    emptyClipSeen >>

\* _drawGlyphCOLRv0: one drawPathSolid per layer, in the order of the list.
drawGlyphCOLRv0(layers) ==
    [ k \in 1..Len(layers) |->
        LET path == DrawGlyphOutline(layers[k].name)
        IN  LogEntry("drawPathSolid", "_drawGlyphCOLRv0", layers[k], path,
                     getColor(layers[k].colorID, RatInt(1)), << >>,
                     drawPathSolid(canvas, path), canvas,
                     << [ Format |-> "COLRv0", layer |-> k - 1,
                          Coordinate |-> << >> ] >>) ]

\* drawGlyph on a glyph with a COLRv0 record only.
DrawGlyphCOLRv0 ==
    /\ phase = "idle"
    /\ nDrawn < MaxRun
    /\ \E name \in RunGlyphs :
        /\ drawGlyphInterpreter(name) = "COLRv0"
        /\ glyphName' = name
        /\ log' = drawGlyphCOLRv0(colrV0Glyphs[name])
    /\ nDrawn' = nDrawn + 1
    /\ lastExit' = NoExit
    /\ glyphEntry' = Snapshot
    /\ UNCHANGED << call, colrV1Glyphs, currentPath, currentTransform, hbCoords,
                    instancer, canvas, stack, exc, phase, emptyClipSeen >>

\* drawGlyph on a glyph with no COLR record: _drawGlyphNoColor.
DrawGlyphNoColor ==
    /\ phase = "idle"
    /\ nDrawn < MaxRun
    /\ \E name \in RunGlyphs :
        /\ drawGlyphInterpreter(name) = "NoColor"
        /\ glyphName' = name
        /\ log' = << LogEntry("drawPathSolid", "_drawGlyphNoColor", name,
                              DrawGlyphOutline(name), textColor, << >>,
                              drawPathSolid(canvas, DrawGlyphOutline(name)),
                              canvas, << >>) >>
    /\ nDrawn' = nDrawn + 1
    /\ lastExit' = NoExit
    /\ glyphEntry' = Snapshot
    /\ UNCHANGED << call, colrV1Glyphs, currentPath, currentTransform, hbCoords,
                    instancer, canvas, stack, exc, phase, emptyClipSeen >>

\* renderText between two glyphs: canvas.translate(xAdvance, yAdvance),
\* outside any savedState.  The caller does so before the last glyph of
\* the run.
RenderTextAdvance ==
    /\ phase = "idle"
    /\ nDrawn = MaxRun - 1
    /\ canvas.ctm = Identity
    /\ canvas' = canvasTransform(canvas, TranslateT(3, 1))
    /\ UNCHANGED << call, colrV1Glyphs, currentPath, currentTransform, hbCoords,
                    instancer, stack, exc, phase, nDrawn, glyphName, log,
                    lastExit, emptyClipSeen, glyphEntry >>

\* ------------------------------------------- _drawPaint: calls and returns

Running == phase = "drawing" /\ exc = None /\ stack # << >>

\* The handler of the innermost call is about to run (or to run on).
AtCall(name) == Running /\ Top.pc = "call" /\ paintName(Top.paint) = name

\* The call made by the innermost handler has returned.
Resumed(name) == Running /\ Top.pc = "wait" /\ paintName(Top.paint) = name

\* The handler of frame f calls self._drawPaint(child, canvas).
Call(f, child) ==
    /\ stack' = Append(SetTop([ f EXCEPT !.pc = "wait" ]), NewFrame(child))
    /\ UNCHANGED << exc, phase, nDrawn >>

\* The innermost handler returns; the return of the root paint's handler
\* is the return of drawGlyph.
Return ==
    /\ stack' = SubSeq(stack, 1, Len(stack) - 1)
    /\ phase' = IF Len(stack) = 1 THEN "idle" ELSE phase
    /\ nDrawn' = IF Len(stack) = 1 THEN nDrawn + 1 ELSE nDrawn
    /\ UNCHANGED exc

\* The innermost handler, as frame f, raises error e.
Raise(f, e) ==
    /\ stack' = SetTop(f)
    /\ exc' = e
    /\ UNCHANGED << phase, nDrawn >>

\* ---------------------------------------------------------------- scopes

\* The entry with _pushTransform(Identity) left out.
ensureClipAndPushPathEnterKeepsTransform(path) ==
    LET clip == currentPath
        transform == currentTransform
        c1 == canvasTransform(savedStateEnter(canvas), transform)
    IN  [ currentPath |-> path,
          currentTransform |-> currentTransform,
          canvas |-> IF clip # None THEN clipPath(c1, clip) ELSE c1 ]

\* The entry with _pushPath left out.
ensureClipAndPushPathEnterKeepsPath(path) ==
    LET clip == currentPath
        transform == currentTransform
        c1 == canvasTransform(savedStateEnter(canvas), transform)
    IN  [ currentPath |-> currentPath,
          currentTransform |-> Identity,
          canvas |-> IF clip # None THEN clipPath(c1, clip) ELSE c1 ]

\* _ensureClipAndPushPath(canvas, path) up to its yield: the canvas state is
\* saved, currentPath becomes path and currentTransform Identity, then the
\* transform and path current at entry go to the canvas.
ensureClipAndPushPathEnter(path) ==
    LET clip == currentPath
        transform == currentTransform
        c1 == canvasTransform(savedStateEnter(canvas), transform)
    IN  [ currentPath |-> path,
          currentTransform |-> Identity,
          canvas |-> IF clip # None THEN clipPath(c1, clip) ELSE c1 ]

\* The locals the three context managers keep in frame f.
ensureClipAndPushPathLocals(f) ==
    [ f EXCEPT !.clipPath = currentPath,
               !.transform = currentTransform,
               !.clipIsEmpty = canvas.clipIsEmpty,
               !.orgPath = currentPath,
               !.orgTransform = currentTransform,
               !.entry = Snapshot ]

\* The exit with _pushTransform's restore left out.
ensureClipAndPushPathExitKeepsTransform(f, c) ==
    [ currentPath |-> f.orgPath,
      currentTransform |-> currentTransform,
      canvas |-> savedStateExit(c, f.clipIsEmpty) ]

\* _ensureClipAndPushPath after its yield, on a normal exit: _pushTransform,
\* _pushPath and savedState restore what they kept.
ensureClipAndPushPathExit(f, c) ==
    [ currentPath |-> f.orgPath,
      currentTransform |-> f.orgTransform,
      canvas |-> savedStateExit(c, f.clipIsEmpty) ]

EnterScope(path) ==
    LET st == ensureClipAndPushPathEnter(path)
    IN  /\ currentPath' = st.currentPath
        /\ currentTransform' = st.currentTransform
        /\ canvas' = st.canvas
        /\ emptyClipSeen' =
             (emptyClipSeen \/ (currentPath # None /\ PathIsEmpty(currentPath)))

ExitScope(f) ==
    LET st == ensureClipAndPushPathExit(f, canvas)
    IN  /\ currentPath' = st.currentPath
        /\ currentTransform' = st.currentTransform
        /\ canvas' = st.canvas
        /\ emptyClipSeen' = f.entry.emptyClipSeen
        /\ lastExit' = ExitRecord("scope", "normal", f, f.entry,
                           Snap(st.currentPath, st.currentTransform, st.canvas,
                                hbCoords, instancer, f.entry.emptyClipSeen))

\* ------------------------------------------------------------- ColrLayers

\* The loop taking the layers from the last to the first.
DrawPaintColrLayersLayerReversed ==
    /\ AtCall("PaintColrLayers")
    /\ Top.i < Top.paint.NumLayers
    /\ LET i == Top.paint.FirstLayerIndex + (Top.paint.NumLayers - 1 - Top.i)
           f == [ ensureClipAndPushPathLocals(Top) EXCEPT
                    !.drawn = Append(Top.drawn, i) ]
       IN  IF i < NumLayerRecords
           THEN Call(f, LayerPaint(i))
           ELSE Raise([ f EXCEPT !.pc = "wait" ], "IndexError")
    /\ EnterScope(None)
    /\ UNCHANGED << call, colrV1Glyphs, hbCoords, instancer, glyphName, log,
                    lastExit, glyphEntry >>

\* _drawPaintColrLayers, one turn of its loop up to the _drawPaint call:
\* the scope is entered, then the layer's paint is looked up.
DrawPaintColrLayersLayer ==
    /\ AtCall("PaintColrLayers")
    /\ Top.i < Top.paint.NumLayers
    /\ LET i == Top.paint.FirstLayerIndex + Top.i
           f == [ ensureClipAndPushPathLocals(Top) EXCEPT
                    !.drawn = Append(Top.drawn, i) ]
       IN  IF i < NumLayerRecords
           THEN Call(f, LayerPaint(i))
           ELSE Raise([ f EXCEPT !.pc = "wait" ], "IndexError")
    /\ EnterScope(None)
    /\ UNCHANGED << call, colrV1Glyphs, hbCoords, instancer, glyphName, log,
                    lastExit, glyphEntry >>

\* The layer's paint has been drawn: the scope is left and the loop goes on.
DrawPaintColrLayersLayerDone ==
    /\ Resumed("PaintColrLayers")
    /\ ExitScope(Top)
    /\ stack' = SetTop([ Top EXCEPT !.pc = "call", !.i = Top.i + 1 ])
    /\ UNCHANGED << call, colrV1Glyphs, hbCoords, instancer, exc, phase, nDrawn,
                    glyphName, log, glyphEntry >>

\* The loop is over.
DrawPaintColrLayersReturn ==
    /\ AtCall("PaintColrLayers")
    /\ Top.i >= Top.paint.NumLayers
    /\ Return
    /\ lastExit' = ExitRecord("layers", "normal", Top, NoSnapshot, Snapshot)
    /\ UNCHANGED << call, colrV1Glyphs, currentPath, currentTransform, hbCoords,
                    instancer, canvas, glyphName, log, emptyClipSeen,
                    glyphEntry >>

\* ------------------------------------------------------------------ leaves

\* A leaf handler ends: it raised err, or made its canvas call, which
\* raised, returned at once or drew.
EndLeaf(err, op, origin, color, outcome, c) ==
    IF err # None
    THEN /\ Raise([ Top EXCEPT !.pc = "raised" ], err)
         /\ UNCHANGED log
    ELSE /\ log' = Append(log, LogEntry(op, origin, Top.paint, currentPath,
                                        color, currentTransform, outcome, c,
                                        Ancestors))
         /\ IF outcome = "AttributeError"
            THEN Raise([ Top EXCEPT !.pc = "raised" ], outcome)
            ELSE Return

\* _drawPaintSolid, for PaintSolid and (through PaintVarWrapper)
\* PaintVarSolid.
DrawPaintSolid ==
    /\ AtCall("PaintSolid")
    /\ LET paint == Top.paint
           isVar == PAINT_VAR_MAPPING(paint.Format) # None
           alpha == IF isVar
                    THEN PaintVarWrapperGetattr(paint.Color.Alpha,
                                                "VarF2Dot14", instancer)
                    ELSE [ err |-> None, value |-> paint.Color.Alpha ]
           reads == isVar /\ instancer.present
       IN  /\ instancer' =
                IF reads /\ paint.Color.Alpha.varIdx # NoVarIdx
                THEN instancerAfterGetItem(instancer, paint.Color.Alpha.varIdx)
                ELSE instancer
           /\ EndLeaf(alpha.err, "drawPathSolid", "_drawPaintSolid",
                      getColor(paint.Color.PaletteIndex, alpha.value),
                      drawPathSolid(canvas, currentPath), canvas)
    /\ UNCHANGED << call, colrV1Glyphs, currentPath, currentTransform, hbCoords,
                    canvas, glyphName, lastExit, emptyClipSeen, glyphEntry >>

\* _drawPaintLinearGradient
DrawPaintLinearGradient ==
    /\ AtCall("PaintLinearGradient")
    /\ EndLeaf(linearGradientArgs(fontColors, Top.paint).err,
               "drawPathLinearGradient", "_drawPaintLinearGradient",
               linearGradientArgs(fontColors, Top.paint),
               drawPathGradient(canvas, currentPath),
               IF drawPathGradient(canvas, currentPath) = "fill"
               THEN gradientCanvas(canvas, currentPath, currentTransform)
               ELSE canvas)
    /\ canvas' = gradientCanvasAfter(canvas, currentPath, currentTransform)
    /\ UNCHANGED << call, colrV1Glyphs, currentPath, currentTransform, hbCoords,
                    instancer, glyphName, lastExit, emptyClipSeen,
                    glyphEntry >>

\* _drawPaintRadialGradient
DrawPaintRadialGradient ==
    /\ AtCall("PaintRadialGradient")
    /\ EndLeaf(None, "drawPathRadialGradient", "_drawPaintRadialGradient",
               << >>, drawPathGradient(canvas, currentPath),
               IF drawPathGradient(canvas, currentPath) = "fill"
               THEN gradientCanvas(canvas, currentPath, currentTransform)
               ELSE canvas)
    /\ canvas' = gradientCanvasAfter(canvas, currentPath, currentTransform)
    /\ UNCHANGED << call, colrV1Glyphs, currentPath, currentTransform, hbCoords,
                    instancer, glyphName, lastExit, emptyClipSeen,
                    glyphEntry >>

\* _drawPaintSweepGradient: the canvas falls back on drawPathSolid.
DrawPaintSweepGradient ==
    /\ AtCall("PaintSweepGradient")
    /\ EndLeaf(None, "drawPathSweepGradient", "_drawPaintSweepGradient",
               << >>, drawPathSolid(canvas, currentPath), canvas)
    /\ UNCHANGED << call, colrV1Glyphs, currentPath, currentTransform, hbCoords,
                    instancer, canvas, glyphName, lastExit, emptyClipSeen,
                    glyphEntry >>

\* ------------------------------------------------------- Glyph, ColrGlyph

\* _drawPaintGlyph up to the _drawPaint call on paint.Paint.
DrawPaintGlyph ==
    /\ AtCall("PaintGlyph")
    /\ EnterScope(DrawGlyphOutline(Top.paint.Glyph))
    /\ Call(ensureClipAndPushPathLocals(Top), Top.paint.Paint)
    /\ UNCHANGED << call, colrV1Glyphs, hbCoords, instancer, glyphName, log,
                    lastExit, glyphEntry >>

\* _drawPaintGlyph after that call: the scope is left.
DrawPaintGlyphExit ==
    /\ Resumed("PaintGlyph")
    /\ ExitScope(Top)
    /\ Return
    /\ UNCHANGED << call, colrV1Glyphs, hbCoords, instancer, glyphName, log,
                    glyphEntry >>

\* _drawPaintColrGlyph: inside the scope, _drawGlyphCOLRv1 is handed
\* paint.Glyph, a glyph name, and reads its Paint attribute: AttributeError.
DrawPaintColrGlyph ==
    /\ AtCall("PaintColrGlyph")
    /\ EnterScope(None)
    /\ Raise([ ensureClipAndPushPathLocals(Top) EXCEPT !.pc = "wait" ],
             "AttributeError")
    /\ UNCHANGED << call, colrV1Glyphs, hbCoords, instancer, glyphName, log,
                    lastExit, glyphEntry >>

\* -------------------------------------------------------------- transforms

\* Transform().translate(cx, cy), then op, then .translate(-cx, -cy).
AroundCenter(cx, cy, op) ==
    Compose(Compose(Compose(Identity, TranslateT(cx, cy)), op),
            TranslateT(-cx, -cy))

\* _applyTransform with the operands of Transform.transform exchanged.
applyTransformExchanged(transform) == Compose(transform, currentTransform)

\* _applyTransform up to its _drawPaint call.
applyTransform(transform) == Compose(currentTransform, transform)

ApplyTransform(transform) ==
    /\ currentTransform' = applyTransform(transform)
    /\ Call(Top, Top.paint.Paint)
    /\ UNCHANGED << call, colrV1Glyphs, currentPath, hbCoords, instancer, canvas,
                    glyphName, log, lastExit, emptyClipSeen, glyphEntry >>

\* _drawPaintTransform
DrawPaintTransform ==
    /\ AtCall("PaintTransform")
    /\ LET t == Top.paint.Transform
       IN  ApplyTransform(<< t.xx, t.yx, t.xy, t.yy, t.dx, t.dy >>)

\* _drawPaintTranslate
DrawPaintTranslate ==
    /\ AtCall("PaintTranslate")
    /\ ApplyTransform(<< 1, 0, 0, 1, Top.paint.dx, Top.paint.dy >>)

\* _drawPaintRotate
DrawPaintRotate ==
    /\ AtCall("PaintRotate")
    /\ ApplyTransform(AroundCenter(Top.paint.centerX, Top.paint.centerY,
                                   RotateT(Top.paint.angle)))

\* _drawPaintScale
DrawPaintScale ==
    /\ AtCall("PaintScale")
    /\ ApplyTransform(AroundCenter(Top.paint.centerX, Top.paint.centerY,
                                   ScaleT(Top.paint.xScale, Top.paint.yScale)))

\* _drawPaintSkew
DrawPaintSkew ==
    /\ AtCall("PaintSkew")
    /\ ApplyTransform(AroundCenter(Top.paint.centerX, Top.paint.centerY,
                                   SkewT(Top.paint.xSkewAngle,
                                         Top.paint.ySkewAngle)))

TransformPaintNames ==
    { "PaintTransform", "PaintTranslate", "PaintRotate", "PaintSkew",
      "PaintScale" }

\* _applyTransform and its handler return; nothing is restored.
ApplyTransformReturn ==
    /\ Running
    /\ Top.pc = "wait"
    /\ paintName(Top.paint) \in TransformPaintNames
    /\ Return
    /\ UNCHANGED << call, colrV1Glyphs, currentPath, currentTransform, hbCoords,
                    instancer, canvas, glyphName, log, lastExit,
                    emptyClipSeen, glyphEntry >>

\* --------------------------------------------------------------- Composite

\* _drawPaintComposite: the scope is entered and left around a print; the
\* source and backdrop paints are not drawn.
DrawPaintComposite ==
    /\ AtCall("PaintComposite")
    /\ LET f == ensureClipAndPushPathLocals(Top)
           in == ensureClipAndPushPathEnter(None)
           out == ensureClipAndPushPathExit(f, in.canvas)
       IN  /\ currentPath' = out.currentPath
           /\ currentTransform' = out.currentTransform
           /\ canvas' = out.canvas
           /\ lastExit' =
                [ ExitRecord("scope", "normal", f, f.entry,
                             Snap(out.currentPath, out.currentTransform,
                                  out.canvas, hbCoords, instancer,
                                  emptyClipSeen))
                  EXCEPT !.inner = Snap(in.currentPath, in.currentTransform,
                                        in.canvas, hbCoords, instancer,
                                        emptyClipSeen) ]
    /\ Return
    /\ UNCHANGED << call, colrV1Glyphs, hbCoords, instancer, glyphName, log,
                    emptyClipSeen, glyphEntry >>

\* ---------------------------------------------------------------- Location

\* The dict _drawPaintLocation builds: axis tag -> AxisValue over the
\* coordinates whose AxisIndex is below numAxes (a later coordinate of the
\* same axis replaces an earlier one).
paintLocation(coords) ==
    LET used == { k \in 1..Len(coords) : coords[k].AxisIndex < numAxes }
        last(tag) == CHOOSE k \in used :
                        /\ axisTags[coords[k].AxisIndex + 1] = tag
                        /\ \A j \in used :
                             axisTags[coords[j].AxisIndex + 1] = tag => j <= k
    IN  [ tag \in { axisTags[coords[k].AxisIndex + 1] : k \in used } |->
            coords[last(tag)].AxisValue ]

\* tmpAxisValues built on the axes' default values.
tmpAxisValuesFromDefault(orgAxisValues, location) ==
    [ k \in 1..Len(orgAxisValues) |->
        IF axisTags[k] \in DOMAIN location
        THEN location[axisTags[k]]
        ELSE 0 ]

\* tmpAxisValues of _pushNormalizedLocation.
tmpAxisValues(orgAxisValues, location) ==
    [ k \in 1..Len(orgAxisValues) |->
        IF axisTags[k] \in DOMAIN location
        THEN location[axisTags[k]]
        ELSE orgAxisValues[k] ]

\* hbFont.set_var_coords_normalized followed by get_var_coords_normalized:
\* the values are kept as F2Dot14 integers.
hbSetCoords(values) == values

\* _pushNormalizedLocation(location) up to its yield.
pushNormalizedLocationEnter(location) ==
    LET tmp == tmpAxisValues(hbCoords, location)
    IN  [ hbCoords |-> hbSetCoords(tmp),
          instancer |-> IF instancer.present
                        THEN instancerSetLocation(instancer,
                                 axisValuesToLocation(tmp, axisTags))
                        ELSE instancer ]

\* The exit with the instancer's location left as it is.
pushNormalizedLocationExitKeepsInstancer(f) ==
    [ hbCoords |-> hbSetCoords(f.orgAxisValues),
      instancer |-> instancer ]

\* The exit with hbFont's coordinates left as they are.
pushNormalizedLocationExitKeepsCoords(f) ==
    [ hbCoords |-> hbCoords,
      instancer |-> IF instancer.present
                    THEN instancerSetLocation(instancer, f.orgLocation)
                    ELSE instancer ]

\* _pushNormalizedLocation after its yield, on a normal exit.
pushNormalizedLocationExit(f) ==
    [ hbCoords |-> hbSetCoords(f.orgAxisValues),
      instancer |-> IF instancer.present
                    THEN instancerSetLocation(instancer, f.orgLocation)
                    ELSE instancer ]

\* _drawPaintLocation up to the _drawPaint call on paint.Paint.
DrawPaintLocation ==
    /\ AtCall("PaintLocation")
    /\ LET st == pushNormalizedLocationEnter(paintLocation(Top.paint.Coordinate))
       IN  /\ hbCoords' = st.hbCoords
           /\ instancer' = st.instancer
    /\ Call([ Top EXCEPT !.orgAxisValues = hbCoords,
                         !.orgLocation = instancer.location,
                         !.entry = Snapshot ],
            Top.paint.Paint)
    /\ UNCHANGED << call, colrV1Glyphs, currentPath, currentTransform, canvas,
                    glyphName, log, lastExit, emptyClipSeen, glyphEntry >>

\* _drawPaintLocation after that call: the location is put back.
DrawPaintLocationExit ==
    /\ Resumed("PaintLocation")
    /\ LET st == pushNormalizedLocationExit(Top)
       IN  /\ hbCoords' = st.hbCoords
           /\ instancer' = st.instancer
           /\ lastExit' = ExitRecord("location", "normal", Top, Top.entry,
                              Snap(currentPath, currentTransform, canvas,
                                   st.hbCoords, st.instancer, emptyClipSeen))
    /\ Return
    /\ UNCHANGED << call, colrV1Glyphs, currentPath, currentTransform, canvas,
                    glyphName, log, emptyClipSeen, glyphEntry >>

\* ------------------------------------------------------------------ errors

ScopePaintNames == { "PaintColrLayers", "PaintGlyph", "PaintColrGlyph" }

\* The error leaves the innermost call.  The context managers that call had
\* entered are generators without try/finally: the error is thrown into
\* them at their yield and nothing after the yield runs.  The error that
\* leaves the root paint's handler leaves drawGlyph.
Unwind ==
    /\ phase = "drawing"
    /\ exc # None
    /\ stack # << >>
    /\ stack' = SubSeq(stack, 1, Len(stack) - 1)
    /\ phase' = IF Len(stack) = 1 THEN "failed" ELSE phase
    /\ lastExit' =
         IF Top.pc = "wait" /\ paintName(Top.paint) \in ScopePaintNames
         THEN ExitRecord("scope", "error", Top, Top.entry, Snapshot)
         ELSE IF Top.pc = "wait" /\ paintName(Top.paint) = "PaintLocation"
         THEN ExitRecord("location", "error", Top, Top.entry, Snapshot)
         ELSE lastExit
    /\ UNCHANGED << call, colrV1Glyphs, currentPath, currentTransform, hbCoords,
                    instancer, canvas, exc, nDrawn, glyphName, log,
                    emptyClipSeen, glyphEntry >>

\* ----------------------------------------------------------- specification

\* The font as loaded: with or without a variation store in COLR, and with
\* or without a setLocation call (variations) before drawing.
InitialFonts ==
    { [ present |-> FALSE, coords |-> << 0, 0 >>, location |-> << >> ],
      [ present |-> TRUE, coords |-> << 0, 0 >>, location |-> << >> ],
      [ present |-> TRUE, coords |-> << F2Dot14One \div 2, 0 >>,
        location |-> axisValuesToLocation(<< F2Dot14One \div 2, 0 >>, axisTags) ] }

Init ==
    /\ colrV1Glyphs \in
         { [ g \in { "colr1", "both" } |->
               [ BaseGlyph |-> g,
                 Paint |-> IF g = "colr1" THEN p ELSE BothPaint ] ] :
           p \in PaintTrees(MaxDepth) }
    /\ \E font \in InitialFonts :
         /\ hbCoords = font.coords
         /\ instancer = [ present |-> font.present,
                          location |-> font.location, scalars |-> << >> ]
    /\ currentPath = "Unset"
    /\ currentTransform = << >>
    /\ canvas = CanvasInit
    /\ stack = << >>
    /\ exc = None
    /\ phase = "idle"
    /\ nDrawn = 0
    /\ glyphName = None
    /\ log = << >>
    /\ lastExit = NoExit
    /\ emptyClipSeen = FALSE
    /\ glyphEntry = NoSnapshot
    /\ call = NoCall

Next ==
    \/ DrawGlyphCOLRv1
    \/ DrawGlyphCOLRv0
    \/ DrawGlyphNoColor
    \/ RenderTextAdvance
    \/ DrawPaintColrLayersLayer
    \/ DrawPaintColrLayersLayerDone
    \/ DrawPaintColrLayersReturn
    \/ DrawPaintSolid
    \/ DrawPaintLinearGradient
    \/ DrawPaintRadialGradient
    \/ DrawPaintSweepGradient
    \/ DrawPaintGlyph
    \/ DrawPaintGlyphExit
    \/ DrawPaintColrGlyph
    \/ DrawPaintTransform
    \/ DrawPaintTranslate
    \/ DrawPaintRotate
    \/ DrawPaintSkew
    \/ DrawPaintScale
    \/ ApplyTransformReturn
    \/ DrawPaintComposite
    \/ DrawPaintLocation
    \/ DrawPaintLocationExit
    \/ Unwind

Spec == Init /\ [][Next]_vars

\* ------------------------------------------- functions called on their own

\* The inputs of the functions called on their own.
TextColors ==
    { textColor, << RatInt(1), Rat(1, 2), RatInt(0), Rat(1, 2) >> }

PaletteTables ==
    { CPALPalettes,
      << << << 0, 0, 0, 255 >>, << 255, 255, 255, 102 >> >>,
         << << 255, 255, 0, 255 >>, << 0, 255, 255, 153 >> >> >> }

Alphas == { RatInt(0), Rat(1, 2), RatInt(1) }

FontColorsInputs ==
    { FontColors(t, h, unpackPalettes(pals), i) :
        t \in TextColors, h \in BOOLEAN, pals \in PaletteTables,
        i \in 0..1 }

ColorIndexInputs == { 0, 1, 2, ForegroundIndex }

\* One call of a function on its own, the only one of its run: no glyph is
\* being drawn.
IdleFont ==
    /\ phase = "idle"
    /\ nDrawn = 0
    /\ call = NoCall
    /\ UNCHANGED drawVars

\* font._getColor(colorIndex, alpha)
CallGetColor ==
    /\ IdleFont
    /\ \E self \in FontColorsInputs, colorIndex \in ColorIndexInputs,
          alpha \in Alphas :
         call' = [ fn |-> "_getColor", self |-> self,
                   colorIndex |-> colorIndex, alpha |-> alpha,
                   result |-> getColorOf(self, colorIndex, alpha) ]

\* The instancers a PaintVarWrapper is made with: none (the font has no
\* VarStore), or one at a location.
InstancerInputs ==
    { [ present |-> FALSE, location |-> << >>, scalars |-> << >> ] } \cup
    { [ present |-> TRUE, scalars |-> << >>,
        location |-> axisValuesToLocation(<< wght, wdth >>, axisTags) ] :
        wght \in { -F2Dot14One, 0, F2Dot14One }, wdth \in { 0, F2Dot14One } }

VariableValueInputs ==
    { [ value |-> base, varIdx |-> varIdx ] :
        base \in Alphas,
        varIdx \in { VarIdx(0, 0), VarIdx(0, 1), NoVarIdx } }

\* PaintVarWrapper(paint, instancer).<attrName>, the attribute a
\* VariableValue: the outcome and the instancer afterwards.
CallPaintVarWrapperGetattr ==
    /\ IdleFont
    /\ \E value \in VariableValueInputs, inst \in InstancerInputs,
          converter \in { "VarF2Dot14", "VarFixed", "Other" } :
         call' = [ fn |-> "__getattr__", value |-> value,
                   converter |-> converter, instancer |-> inst,
                   result |-> PaintVarWrapperGetattr(value, converter, inst),
                   after |-> IF inst.present /\ value.varIdx # NoVarIdx
                             THEN instancerAfterGetItem(inst, value.varIdx)
                             ELSE inst ]

\* Stop offsets (also below 0 and above 1) and colours of the colour lines.
StopOffsets ==
    { Rat(-1, 2), RatInt(0), Rat(1, 4), Rat(1, 2), RatInt(1), Rat(3, 2) }

StopColors ==
    { << RatInt(1), RatInt(0), RatInt(0), RatInt(1) >>,
      << RatInt(0), RatInt(0), RatInt(1), Rat(1, 2) >> }

RECURSIVE ColorLinesOfLen(_)
ColorLinesOfLen(n) ==
    IF n = 0 THEN { << >> }
    ELSE { Append(line, << stop, color >>) :
             line \in ColorLinesOfLen(n - 1), stop \in StopOffsets,
             color \in StopColors }

ColorLineInputs == UNION { ColorLinesOfLen(n) : n \in 0..MaxStops }

\* _normalizeColorLine(colorLine)
CallNormalizeColorLine ==
    /\ IdleFont
    /\ \E colorLine \in ColorLineInputs :
         call' = [ fn |-> "_normalizeColorLine", colorLine |-> colorLine,
                   result |-> normalizeColorLine(colorLine) ]

\* Fonts for getGlyphBounds: the extents of the outline glyphs A, B, E (E
\* empty) and of the base glyph "g", the layers of g's COLRv0 record if it
\* has one, and whether g has a COLRv1 record.
ExtentsInputs ==
    { [ n \in { "A", "B", "E", "g" } |->
          CASE n = "A" -> a [] n = "B" -> b [] n = "g" -> g
            [] OTHER -> << 0, 0, 0, 0 >> ] :
        a \in { << 1, 7, 5, -7 >>, << -1, 3, 2, -4 >> },
        b \in { << 2, 9, 4, -6 >>, << 0, 2, 8, -3 >> },
        g \in { << 0, 0, 0, 0 >>, << 0, 10, 10, -10 >> } }

LayerListInputs ==
    { << >> } \cup
    { << [ name |-> n, colorID |-> 0 ] >> : n \in { "A", "B", "E" } } \cup
    { << [ name |-> n, colorID |-> 0 ], [ name |-> m, colorID |-> 1 ] >> :
        n, m \in { "A", "B", "E" } }

BoundsFontInputs ==
    { [ extents |-> e, colrV0Glyphs |-> v0, colrV1Glyphs |-> v1 ] :
        e \in ExtentsInputs,
        v0 \in { << >> } \cup { [ n \in { "g" } |-> layers ] :
                                   layers \in LayerListInputs },
        v1 \in { { }, { "g" } } }

\* font.getGlyphBounds(glyphName)
CallGetGlyphBounds ==
    /\ IdleFont
    /\ \E self \in BoundsFontInputs, name \in { "g", "A" } :
         call' = [ fn |-> "getGlyphBounds", self |-> self,
                   glyphName |-> name,
                   result |-> getGlyphBoundsOf(self, name) ]

\* Glyph lines of up to MaxGlyphs glyphs "g" and "A", and the fonts they
\* are shaped with: "g" has a COLRv0 record, which may have no layers.
GlyphInfoInputs ==
    { GlyphInfo(n, xa, 0, xo, yo) :
        n \in { "g", "A" }, xa \in { 5, 10 }, xo \in { 0, 1 }, yo \in { 0, 3 } }

RECURSIVE GlyphLinesOfLen(_)
GlyphLinesOfLen(n) ==
    IF n = 0 THEN { << >> }
    ELSE { Append(line, g) :
             line \in GlyphLinesOfLen(n - 1), g \in GlyphInfoInputs }

GlyphLineInputs == UNION { GlyphLinesOfLen(n) : n \in 0..MaxGlyphs }

LineFontInputs ==
    { self \in BoundsFontInputs :
        /\ self.extents["A"] = << 1, 7, 5, -7 >>
        /\ self.extents["B"] = << 2, 9, 4, -6 >>
        /\ self.extents["g"] = << 0, 10, 10, -10 >>
        /\ self.colrV0Glyphs # << >>
        /\ Len(self.colrV0Glyphs["g"]) <= 1 }

\* buildLineInfo's calcGlyphLineBounds(glyphLine, font), and renderText's
\* loop over the same glyph line.
CallCalcGlyphLineBounds ==
    /\ IdleFont
    /\ \E self \in LineFontInputs, glyphLine \in GlyphLineInputs :
         call' = [ fn |-> "calcGlyphLineBounds", self |-> self,
                   glyphLine |-> glyphLine,
                   result |-> calcGlyphLineBounds(glyphLine, self),
                   drawn |-> renderTextLoop(glyphLine, CanvasInit, << >>) ]

InitFn ==
    /\ Init
    /\ colrV1Glyphs["colr1"].Paint = PaintSolid(0, Rat(1, 2))
    /\ ~instancer.present

NextFn ==
    \/ CallGetColor
    \/ CallPaintVarWrapperGetattr
    \/ CallNormalizeColorLine
    \/ CallGetGlyphBounds
    \/ CallCalcGlyphLineBounds

SpecFn == InitFn /\ [][NextFn]_vars

\* ------------------------------------------------------------------ claims

ScopeFormats == { "PaintColrLayers", "PaintGlyph", "PaintColrGlyph",
                  "PaintComposite" }

\* C1: whenever a scope opened by _ensureClipAndPushPath (a ColrLayers
\* layer, a Glyph, a Composite) is left normally, currentPath and
\* currentTransform are again what they were when the scope was entered,
\* whatever the paints inside did to currentTransform.
C1_ScopeExitRestoresPathAndTransform ==
    (lastExit.kind = "scope" /\ lastExit.how = "normal") =>
        /\ lastExit.after.currentPath = lastExit.entry.currentPath
        /\ lastExit.after.currentTransform = lastExit.entry.currentTransform

\* A Glyph scope entered under a transform is left normally after a
\* transform paint inside it has overwritten currentTransform.
C1_Witness ==
    /\ lastExit.kind = "scope"
    /\ lastExit.how = "normal"
    /\ lastExit.format = "PaintGlyph"
    /\ lastExit.entry.currentTransform # Identity
    /\ lastExit.inner.currentTransform # Identity
    /\ lastExit.inner.currentTransform # lastExit.entry.currentTransform
    /\ lastExit.inner.currentPath # lastExit.entry.currentPath

\* C2: whenever a Location paint's scope is left normally, hbFont's
\* normalized axis values and the instancer's location are again what they
\* were when that scope was entered; a nested Location restores the
\* location of its own entry.
C2_LocationExitRestoresLocation ==
    (lastExit.kind = "location" /\ lastExit.how = "normal") =>
        /\ lastExit.after.hbCoords = lastExit.entry.hbCoords
        /\ lastExit.after.location = lastExit.entry.location

\* A Location nested in another Location is left normally: the location it
\* restores is the outer Location's, not the one drawGlyph started with.
C2_Witness ==
    /\ lastExit.kind = "location"
    /\ lastExit.how = "normal"
    /\ lastExit.entry.hbCoords # glyphEntry.hbCoords
    /\ lastExit.inner.hbCoords # lastExit.entry.hbCoords
    /\ lastExit.entry.location # glyphEntry.location
    /\ lastExit.inner.location # lastExit.entry.location

\* The layer indices of the ColrLayers paints (or COLRv0 record) above a
\* draw call, outermost first.
IsLayered(a) == a.layer >= 0

Trail(e) ==
    LET layered == SelectSeq(e.ancestors, IsLayered)
    IN  [ k \in 1..Len(layered) |-> layered[k].layer ]

\* s comes no later than t in the order of drawing: at the first ColrLayers
\* level where they differ, s has the smaller layer index.
TrailLeq(s, t) ==
    \/ \E k \in 1..Len(s) :
         /\ k <= Len(t)
         /\ \A j \in 1..(k - 1) : s[j] = t[j]
         /\ s[k] < t[k]
    \/ /\ Len(s) <= Len(t)
       /\ \A j \in 1..Len(s) : s[j] = t[j]

\* C3: the canvas calls of a drawGlyph call are in the order of the layers:
\* under every ColrLayers paint a call of layer i comes before a call of
\* layer j > i; a ColrLayers paint that returns has drawn each layer of its
\* range once, first to last; a COLRv0 glyph draws each of its layers once,
\* first to last.
C3_LayersDrawnInSourceOrder ==
    /\ \A k, l \in 1..Len(log) : k < l => TrailLeq(Trail(log[k]), Trail(log[l]))
    /\ lastExit.kind = "layers" =>
         lastExit.drawn = [ k \in 1..lastExit.num |-> lastExit.first + k - 1 ]
    /\ (phase = "idle" /\ glyphName \in DOMAIN colrV0Glyphs
          /\ glyphName \notin DOMAIN colrV1Glyphs) =>
         /\ Len(log) = Len(colrV0Glyphs[glyphName])
         /\ \A k \in 1..Len(log) :
              /\ log[k].path = DrawGlyphOutline(colrV0Glyphs[glyphName][k].name)
              /\ Trail(log[k]) = << k - 1 >>

\* A ColrLayers paint of two layers, the first a nested ColrLayers paint of
\* two layers, has returned and all three leaves have been drawn.
C3_Witness ==
    /\ lastExit.kind = "layers"
    /\ lastExit.num = 2
    /\ Len(log) = 3
    /\ Len(Trail(log[1])) = 2
    /\ Trail(log[1]) # Trail(log[2])
    /\ Len(Trail(log[3])) = 1
    /\ \A k \in 1..3 : log[k].performed

\* C4: once clipPath has been given an empty path, no draw call draws
\* before the savedState scope around that clipPath call is left, in nested
\* scopes and after later clipPath calls with other paths too.
C4_NoFillUnderEmptyClip ==
    \A k \in 1..Len(log) : log[k].emptyClipSeen => ~log[k].performed

LeafOrigins ==
    { "_drawPaintSolid", "_drawPaintLinearGradient",
      "_drawPaintRadialGradient", "_drawPaintSweepGradient" }

LeafFormats ==
    { "PaintSolid", "PaintVarSolid", "PaintLinearGradient",
      "PaintRadialGradient", "PaintSweepGradient" }

IsLeafCall(e) == e.origin \in LeafOrigins

\* Every Solid and gradient leaf of the paint tree p has a Glyph paint above
\* it (g: p itself has one).
RECURSIVE AllLeavesUnderGlyph(_, _)
AllLeavesUnderGlyph(p, g) ==
    CASE p.Format \in LeafFormats -> g
      [] p.Format = "PaintGlyph" -> AllLeavesUnderGlyph(p.Paint, TRUE)
      [] p.Format = "PaintColrLayers" ->
           \A i \in p.FirstLayerIndex..(p.FirstLayerIndex + p.NumLayers - 1) :
               i < NumLayerRecords => AllLeavesUnderGlyph(LayerPaint(i), g)
      [] p.Format = "PaintColrGlyph" ->
           AllLeavesUnderGlyph(colrV1Glyphs[p.Glyph].Paint, g)
      [] p.Format = "PaintComposite" ->
           /\ AllLeavesUnderGlyph(p.SourcePaint, g)
           /\ AllLeavesUnderGlyph(p.BackdropPaint, g)
      [] OTHER -> AllLeavesUnderGlyph(p.Paint, g)

\* C5 as claimed: in a COLRv1 paint tree all of whose leaves have a Glyph
\* paint above them, every draw call of a leaf is passed a path, never
\* None.
C5_PathAtLeavesUnderGlyph ==
    (/\ glyphName \in DOMAIN colrV1Glyphs
     /\ AllLeavesUnderGlyph(colrV1Glyphs[glyphName].Paint, FALSE)) =>
        \A k \in 1..Len(log) : IsLeafCall(log[k]) => log[k].path # None

IsScope(a) == a.Format \in ScopeFormats

\* The format of the innermost scope-opening paint above a draw call.
NearestScope(e) ==
    LET scopes == SelectSeq(e.ancestors, IsScope)
    IN  IF scopes = << >> THEN None ELSE scopes[Len(scopes)].Format

\* C5 as amended: every draw call of a leaf whose innermost enclosing
\* Glyph, ColrLayers or ColrGlyph paint is a Glyph paint is passed a path,
\* never None.
C5_PathAtLeavesDirectlyUnderGlyph ==
    \A k \in 1..Len(log) :
        (IsLeafCall(log[k]) /\ NearestScope(log[k]) = "PaintGlyph") =>
            log[k].path # None

\* A leaf is drawn under a Glyph paint that lies in a layer of a ColrLayers
\* paint which itself lies under a Glyph paint.
C5_Witness ==
    \E k \in 1..Len(log) :
        /\ IsLeafCall(log[k])
        /\ NearestScope(log[k]) = "PaintGlyph"
        /\ Len(log[k].ancestors) >= 3
        /\ log[k].ancestors[1].Format = "PaintGlyph"
        /\ log[k].ancestors[2].Format = "PaintColrLayers"
        /\ log[k].path # None
        /\ log[k].performed

\* C6: when an error leaves a scope that holds a canvas savedState, the
\* canvas transform, clip and empty-clip flag are again what they were when
\* the scope was entered.
C6_ErrorExitRestoresCanvas ==
    (lastExit.kind = "scope" /\ lastExit.how = "error") =>
        /\ lastExit.after.ctm = lastExit.entry.ctm
        /\ lastExit.after.clip = lastExit.entry.clip
        /\ lastExit.after.clipIsEmpty = lastExit.entry.clipIsEmpty

\* C7: when drawGlyph has failed, hbFont's normalized axis values and the
\* instancer's location are what they were at the drawGlyph call, also when
\* the error went through Location paints.
C7_FailureRestoresLocation ==
    phase = "failed" =>
        /\ hbCoords = glyphEntry.hbCoords
        /\ instancer.location = glyphEntry.location

\* The axis values after the coordinates cs of one Location paint are laid
\* over coords: per axis, the last coordinate naming it.
OverlayCoords(coords, cs) ==
    [ k \in 1..Len(coords) |->
        LET named == { j \in 1..Len(cs) : cs[j].AxisIndex = k - 1 }
        IN  IF named = { } THEN coords[k]
            ELSE cs[CHOOSE j \in named : \A m \in named : m <= j].AxisValue ]

RECURSIVE OverlayAll(_, _)
OverlayAll(coords, ancestors) ==
    IF ancestors = << >> THEN coords
    ELSE OverlayAll(OverlayCoords(coords, Head(ancestors).Coordinate),
                    Tail(ancestors))

\* The axis values in force at a draw call: those of the drawGlyph call
\* under the Location paints above the call.
ScopeCoords(e) == OverlayAll(glyphEntry.hbCoords, e.ancestors)

\* base + delta(varIdx, location) * factor for the alpha of a PaintVarSolid.
AlphaAt(paint, coords) ==
    LET a == paint.Color.Alpha
    IN  RatAdd(a.value,
               RatMul(RatMul(RatInt(VarStore[a.varIdx].delta),
                             RegionScalar(a.varIdx,
                                 axisValuesToLocation(coords, axisTags))),
                      Rat(1, F2Dot14One)))

IsVarRead(e) ==
    /\ e.origin = "_drawPaintSolid"
    /\ e.paint.Format = "PaintVarSolid"
    /\ e.paint.Color.Alpha.varIdx # NoVarIdx

\* C8: the alpha of every PaintVarSolid drawn is base + delta * factor at
\* the location in force where it is drawn: the location of the drawGlyph
\* call under the Location paints that enclose it, and no others.
C8_VarFieldReadAtLocationInForce ==
    \A k \in 1..Len(log) :
        IsVarRead(log[k]) =>
            log[k].color[4] =
                RatMul(palettes[paletteIndex + 1]
                               [log[k].paint.Color.PaletteIndex + 1][4],
                       AlphaAt(log[k].paint, ScopeCoords(log[k])))

\* The same variable alpha is read inside a Location scope and again after
\* the scope has been left, with different results.
C8_Witness ==
    \E k, l \in 1..Len(log) :
        /\ k < l
        /\ IsVarRead(log[k])
        /\ IsVarRead(log[l])
        /\ log[k].paint = log[l].paint
        /\ \E j \in 1..Len(log[k].ancestors) :
               log[k].ancestors[j].Format = "PaintLocation"
        /\ \A j \in 1..Len(log[l].ancestors) :
               log[l].ancestors[j].Format # "PaintLocation"
        /\ log[k].color # log[l].color
        /\ lastExit.kind = "layers"

\* C9: drawGlyph runs one interpreter.  A glyph with a COLRv1 record is
\* drawn from its root paint, starting with currentTransform Identity and
\* currentPath None, and by the paint handlers alone, also when it has a
\* COLRv0 record; a glyph with a COLRv0 record only gets one drawPathSolid
\* per layer; any other glyph gets one drawPathSolid of its outline in the
\* text colour.
C9_DrawGlyphSelectsOneInterpreter ==
    /\ phase = "drawing" =>
         /\ glyphName \in DOMAIN colrV1Glyphs
         /\ stack # << >> => stack[1].paint = colrV1Glyphs[glyphName].Paint
         /\ (Len(stack) = 1 /\ Top.pc = "call" /\ Top.i = 0) =>
              /\ currentTransform = Identity
              /\ currentPath = None
              /\ log = << >>
    /\ glyphName \in DOMAIN colrV1Glyphs =>
         \A k \in 1..Len(log) : IsLeafCall(log[k])
    /\ (glyphName \in DOMAIN colrV0Glyphs
          /\ glyphName \notin DOMAIN colrV1Glyphs) =>
         /\ phase = "idle"
         /\ Len(log) = Len(colrV0Glyphs[glyphName])
         /\ \A k \in 1..Len(log) :
              /\ log[k].op = "drawPathSolid"
              /\ log[k].origin = "_drawGlyphCOLRv0"
              /\ log[k].path = DrawGlyphOutline(colrV0Glyphs[glyphName][k].name)
              /\ log[k].color =
                   getColor(colrV0Glyphs[glyphName][k].colorID, RatInt(1))
    /\ (glyphName \in RunGlyphs
          /\ glyphName \notin DOMAIN colrV0Glyphs
          /\ glyphName \notin DOMAIN colrV1Glyphs) =>
         /\ phase = "idle"
         /\ Len(log) = 1
         /\ log[1].op = "drawPathSolid"
         /\ log[1].origin = "_drawGlyphNoColor"
         /\ log[1].path = DrawGlyphOutline(glyphName)
         /\ log[1].color = textColor

\* The glyph with both records has been drawn, by the COLRv1 interpreter,
\* after a glyph that left a currentTransform other than Identity behind.
C9_Witness ==
    /\ glyphName = "both"
    /\ phase = "idle"
    /\ nDrawn = 2
    /\ Len(log) = 1
    /\ log[1].origin = "_drawPaintSolid"
    /\ log[1].performed
    /\ glyphEntry.currentTransform # Identity
    /\ glyphEntry.currentTransform # << >>
    /\ glyphEntry.currentPath = None

\* The root paint of "colr1" is a Glyph paint of an empty outline around a
\* Solid paint.
EmptyGlyphAroundSolid ==
    /\ glyphName = "colr1"
    /\ colrV1Glyphs["colr1"].Paint.Format = "PaintGlyph"
    /\ EmptyOutline(colrV1Glyphs["colr1"].Paint.Glyph)
    /\ colrV1Glyphs["colr1"].Paint.Paint.Format = "PaintSolid"

\* C10 as claimed: drawing Glyph(g) around a Solid, g's outline empty,
\* makes the backend fill nothing: no draw call draws.
C10_EmptyGlyphEmitsNoFill ==
    EmptyGlyphAroundSolid => \A k \in 1..Len(log) : ~log[k].performed

\* C10 as amended: drawing Glyph(g) around a Solid, g's outline empty, does
\* not fail and makes one drawPathSolid call, with g's empty path, no clip
\* installed and the empty-clip flag unset; the backend fills that path,
\* which has no area.
C10_EmptyGlyphFillsEmptyPathOnly ==
    EmptyGlyphAroundSolid =>
        /\ phase # "failed"
        /\ phase = "idle" =>
             /\ Len(log) = 1
             /\ log[1].op = "drawPathSolid"
             /\ log[1].path = DrawGlyphOutline(colrV1Glyphs["colr1"].Paint.Glyph)
             /\ PathIsEmpty(log[1].path)
             /\ log[1].performed
             /\ log[1].clip = << >>
             /\ log[1].clipIsEmpty = None

\* That glyph has been drawn.
C10_Witness ==
    /\ EmptyGlyphAroundSolid
    /\ phase = "idle"
    /\ Len(log) = 1

\* C11: _getColor(colorIndex, alpha) with colorIndex 0xFFFF returns the
\* text colour with its alpha multiplied by alpha, whatever paletteIndex is
\* and whether or not the font has palettes; with any other colorIndex it
\* returns entry colorIndex of palette paletteIndex with its alpha
\* multiplied by alpha (and raises only when the font has no such entry).
C11_GetColor ==
    call.fn = "_getColor" =>
        LET self == call.self
            hasEntry ==
                /\ self.hasPalettes
                /\ self.paletteIndex + 1 \in DOMAIN self.palettes
                /\ call.colorIndex + 1
                     \in DOMAIN self.palettes[self.paletteIndex + 1]
        IN  IF call.colorIndex = 65535
            THEN /\ call.result.err = None
                 /\ call.result.value =
                      << self.textColor[1], self.textColor[2],
                         self.textColor[3],
                         RatMul(self.textColor[4], call.alpha) >>
            ELSE IF hasEntry
            THEN LET e == self.palettes[self.paletteIndex + 1]
                                       [call.colorIndex + 1]
                 IN  /\ call.result.err = None
                     /\ call.result.value =
                          << e[1], e[2], e[3], RatMul(e[4], call.alpha) >>
            ELSE call.result.err # None

\* The foreground colour is asked of a font without palettes, with an alpha
\* that changes it.
C11_Witness ==
    /\ call.fn = "_getColor"
    /\ call.colorIndex = 65535
    /\ ~call.self.hasPalettes
    /\ call.self.paletteIndex = 1
    /\ call.self.textColor[4] = Rat(1, 2)
    /\ call.alpha = Rat(1, 2)
    /\ call.result.value[4] = Rat(1, 4)

\* C12: a variable field (base, varIdx) with varIdx 0xFFFFFFFF resolves to
\* base at every location and with every converter, without an error and
\* without the instancer being read, so also when the font has none.
C12_NoVarIdxYieldsBase ==
    (call.fn = "__getattr__" /\ call.value.varIdx = << 65535, 65535 >>) =>
        /\ call.result.err = None
        /\ call.result.value = call.value.value
        /\ call.after = call.instancer

\* Such a field is resolved without an instancer, and at a location where a
\* field with a variation index gets another value than its base.
C12_Witness ==
    /\ call.fn = "__getattr__"
    /\ call.value.varIdx = NoVarIdx
    /\ call.value.value = Rat(1, 2)
    /\ call.result.value = Rat(1, 2)
    /\ \/ ~call.instancer.present
       \/ /\ call.instancer.present
          /\ PaintVarWrapperGetattr(
                 [ value |-> Rat(1, 2), varIdx |-> VarIdx(0, 0) ],
                 call.converter, call.instancer).value # Rat(1, 2)

\* C13: _normalizeColorLine on a non-empty colour line.  Stops not all
\* equal: it returns the smallest stop sMin, the largest stop sMax and a
\* line of the same colours in the same order whose stops are
\* (stop - sMin) / (sMax - sMin), so sMin becomes 0, sMax becomes 1 and all
\* lie in [0, 1].  Stops all equal: it returns 0, 1 and the line as given.
C13_NormalizeColorLine ==
    (call.fn = "_normalizeColorLine" /\ call.colorLine # << >>) =>
        LET line == call.colorLine
            r == call.result
            idx == 1..Len(line)
        IN  /\ r.err = None
            /\ IF \E i, j \in idx : line[i][1] # line[j][1]
               THEN /\ \E i \in idx : r.minStop = line[i][1]
                    /\ \E i \in idx : r.maxStop = line[i][1]
                    /\ \A i \in idx : /\ RatLeq(r.minStop, line[i][1])
                                      /\ RatLeq(line[i][1], r.maxStop)
                    /\ Len(r.colorLine) = Len(line)
                    /\ \A i \in idx :
                         /\ r.colorLine[i][2] = line[i][2]
                         /\ RatMul(r.colorLine[i][1],
                                   RatSub(r.maxStop, r.minStop))
                              = RatSub(line[i][1], r.minStop)
                         /\ RatLeq(RatInt(0), r.colorLine[i][1])
                         /\ RatLeq(r.colorLine[i][1], RatInt(1))
                         /\ line[i][1] = r.minStop =>
                              r.colorLine[i][1] = RatInt(0)
                         /\ line[i][1] = r.maxStop =>
                              r.colorLine[i][1] = RatInt(1)
               ELSE /\ r.minStop = RatInt(0)
                    /\ r.maxStop = RatInt(1)
                    /\ r.colorLine = line

\* A line of three stops out of order, from below 0 to above 1, has been
\* normalized.
C13_Witness ==
    /\ call.fn = "_normalizeColorLine"
    /\ Len(call.colorLine) = 3
    /\ call.colorLine[1][1] = Rat(3, 2)
    /\ call.colorLine[2][1] = Rat(-1, 2)
    /\ call.colorLine[3][1] = Rat(1, 2)
    /\ call.colorLine[1][2] # call.colorLine[2][2]
    /\ call.result.minStop = Rat(-1, 2)
    /\ call.result.maxStop = Rat(3, 2)
    /\ call.result.colorLine[1][1] = RatInt(1)
    /\ call.result.colorLine[2][1] = RatInt(0)
    /\ call.result.colorLine[3][1] = Rat(1, 2)

\* The rectangle (x, y + h, x + w, y) of extents (x, y, w, h).
ExtentsRect(e) == << e[1], e[2] + e[4], e[1] + e[3], e[2] >>

\* C14: getGlyphBounds(name) returns the rectangle of the glyph's own
\* extents when the glyph has a COLRv1 record or no COLRv0 record, and for
\* a glyph with a COLRv0 record only the smallest rectangle around the
\* rectangles of all its layer glyphs (None when it has no layers); the
\* rectangle of extents (x, y, w, h) is (x, y + h, x + w, y).
C14_GetGlyphBounds ==
    call.fn = "getGlyphBounds" =>
        LET self == call.self
            name == call.glyphName
            r == call.result
        IN  IF name \in self.colrV1Glyphs
               \/ name \notin DOMAIN self.colrV0Glyphs
            THEN /\ ~r.isNone
                 /\ r.rect = ExtentsRect(self.extents[name])
            ELSE LET layers == self.colrV0Glyphs[name]
                     rects == { ExtentsRect(self.extents[layers[i].name]) :
                                  i \in 1..Len(layers) }
                 IN  IF layers = << >> THEN r.isNone
                     ELSE /\ ~r.isNone
                          /\ \A q \in rects :
                               /\ r.rect[1] <= q[1] /\ r.rect[2] <= q[2]
                               /\ r.rect[3] >= q[3] /\ r.rect[4] >= q[4]
                          /\ \A k \in 1..4 : \E q \in rects : r.rect[k] = q[k]

\* The bounds of a COLRv0-only glyph of two layers were asked; they are the
\* rectangle of neither layer and not that of the glyph's own outline.
C14_Witness ==
    /\ call.fn = "getGlyphBounds"
    /\ call.glyphName = "g"
    /\ call.self.colrV1Glyphs = { }
    /\ "g" \in DOMAIN call.self.colrV0Glyphs
    /\ Len(call.self.colrV0Glyphs["g"]) = 2
    /\ ~call.result.isNone
    /\ \A n \in { "A", "B", "E", "g" } :
         call.result.rect # ExtentsRect(call.self.extents[n])
    /\ call.result.rect = << 1, 0, 6, 9 >>

\* The frames that have entered _ensureClipAndPushPath.
InScope(k) ==
    /\ stack[k].paint.Format \in ScopeFormats
    /\ stack[k].entry # NoSnapshot

\* The canvas transform right after frame k entered its scope: the one
\* its path (a Glyph paint's) is drawn under, and the one in force at the
\* clipPath call made at that entry.
ScopeCTM(k) == Compose(stack[k].entry.ctm, stack[k].transform)

\* C15: when a scope entry installs the path of an enclosing Glyph paint as
\* clip, the canvas transform at the clipPath call is the transform that
\* was in force for that Glyph paint's path; transform paints between the
\* Glyph paint and the nested scope are no part of it.
C15_ClipInSpaceOfItsGlyph ==
    \A k \in 1..Len(stack) :
        (InScope(k) /\ stack[k].clipPath # None) =>
            \E j \in 1..(k - 1) :
                /\ InScope(j)
                /\ stack[j].paint.Format = "PaintGlyph"
                /\ \A m \in (j + 1)..(k - 1) : ~InScope(m)
                /\ DrawGlyphOutline(stack[j].paint.Glyph) = stack[k].clipPath
                /\ ScopeCTM(k) = ScopeCTM(j)

\* The paint of a layer of the ColrLayers paint of frame k is about to be
\* drawn.
LayerStarts(k) ==
    /\ exc = None
    /\ k + 1 = Len(stack)
    /\ stack[k].paint.Format = "PaintColrLayers"
    /\ stack[k].pc = "wait"
    /\ Top.pc = "call"
    /\ Top.i = 0

\* C16: every layer of a ColrLayers paint starts with currentPath None and
\* currentTransform Identity in a canvas savedState of its own, in which
\* the transform accumulated before the layer has been applied and the
\* path current before it, if any, has been given to clipPath; and the
\* ambient state and the canvas before a layer are those before the layer
\* drawn before it, whatever that layer set.
C16_LayersStartAlike ==
    \A k \in 1..(Len(stack) - 1) :
        LayerStarts(k) =>
            LET f == stack[k]
                b == f.entry
            IN  /\ currentPath = None
                /\ currentTransform = Identity
                /\ Len(canvas.gstack) = b.depth + 1
                /\ canvas.ctm = Compose(b.ctm, b.currentTransform)
                /\ IF b.currentPath = None
                   THEN /\ canvas.clip = b.clip
                        /\ canvas.clipIsEmpty = b.clipIsEmpty
                   ELSE IF PathIsEmpty(b.currentPath)
                   THEN /\ canvas.clip = b.clip
                        /\ canvas.clipIsEmpty = PyTrue
                   ELSE /\ canvas.clip =
                             Append(b.clip, [ path |-> b.currentPath,
                                              ctm |-> canvas.ctm ])
                        /\ canvas.clipIsEmpty = PyFalse
                /\ Len(f.drawn) > 1 =>
                     /\ lastExit.kind = "scope"
                     /\ lastExit.format = "PaintColrLayers"
                     /\ lastExit.how = "normal"
                     /\ lastExit.entry = b
                     /\ lastExit.after = b

\* The second layer of a ColrLayers paint below a Glyph and a transform
\* paint starts, after a first layer that set a transform and a path.
C16_Witness ==
    \E k \in 1..(Len(stack) - 1) :
        /\ LayerStarts(k)
        /\ Len(stack[k].drawn) = 2
        /\ stack[k].entry.currentPath # None
        /\ stack[k].entry.currentTransform # Identity
        /\ lastExit.inner.currentTransform # Identity
        /\ Len(log) > 0

TransformFormats ==
    { "PaintTransform", "PaintTranslate", "PaintRotate", "PaintSkew",
      "PaintScale" }

\* The image of point p under the affine map t = (xx, yx, xy, yy, dx, dy).
ApplyTo(t, p) ==
    << t[1] * p[1] + t[3] * p[2] + t[5], t[2] * p[1] + t[4] * p[2] + t[6] >>

\* The map of a transform paint by itself: the Affine2x3; the shift by
\* (dx, dy); the rotation, the skew or the scaling that leaves the centre
\* where it is.
OwnTransform(paint) ==
    LET cx == paint.centerX
        cy == paint.centerY
    IN  CASE paint.Format = "PaintTransform" ->
               << paint.Transform.xx, paint.Transform.yx, paint.Transform.xy,
                  paint.Transform.yy, paint.Transform.dx, paint.Transform.dy >>
          [] paint.Format = "PaintTranslate" ->
               << 1, 0, 0, 1, paint.dx, paint.dy >>
          [] paint.Format = "PaintRotate" ->
               LET c == CosDeg(paint.angle)
                   sn == SinDeg(paint.angle)
               IN  << c, sn, -sn, c,
                      cx - c * cx + sn * cy, cy - sn * cx - c * cy >>
          [] paint.Format = "PaintSkew" ->
               LET tx == TanDeg(paint.xSkewAngle)
                   ty == TanDeg(paint.ySkewAngle)
               IN  << 1, ty, tx, 1, -tx * cy, -ty * cx >>
          [] paint.Format = "PaintScale" ->
               << paint.xScale, 0, 0, paint.yScale,
                  cx - paint.xScale * cx, cy - paint.yScale * cy >>

\* The image of p under the transform paints ps, outermost first: the
\* innermost paint's map is applied first.
RECURSIVE ApplyChain(_, _)
ApplyChain(ps, p) ==
    IF ps = << >> THEN p
    ELSE ApplyTo(OwnTransform(Head(ps)), ApplyChain(Tail(ps), p))

TestPoints == { << 0, 0 >>, << 1, 0 >>, << 0, 1 >>, << 2, 3 >> }

\* t is the composition of the transform paints ps.
IsChain(t, ps) == \A p \in TestPoints : ApplyTo(t, p) = ApplyChain(ps, p)

IsTransformPaint(p) == p.Format \in TransformFormats

\* The transform paints of the frames above the innermost scope below
\* frame k, up to frame k.
RECURSIVE ChainAbove(_)
ChainAbove(k) ==
    IF k = 1 \/ InScope(k - 1) THEN << >>
    ELSE IF IsTransformPaint(stack[k - 1].paint)
    THEN Append(ChainAbove(k - 1), stack[k - 1].paint)
    ELSE ChainAbove(k - 1)

\* The same of the paints above a draw call.
RECURSIVE ChainOf(_)
ChainOf(ancestors) ==
    IF ancestors = << >> THEN << >>
    ELSE LET a == ancestors[Len(ancestors)]
             rest == SubSeq(ancestors, 1, Len(ancestors) - 1)
         IN  IF IsScope(a) THEN << >>
             ELSE IF IsTransformPaint(a.paint)
             THEN Append(ChainOf(rest), a.paint)
             ELSE ChainOf(rest)

GradientOrigins ==
    { "_drawPaintLinearGradient", "_drawPaintRadialGradient",
      "_drawPaintSweepGradient" }

\* Every scope entered got the composition of the transform paints above it
\* as the transform for the canvas, and every gradient drawn got that of
\* the transform paints above it as gradientTransform.
ChainsComposed ==
    /\ \A k \in 1..Len(stack) :
         InScope(k) => IsChain(stack[k].transform, ChainAbove(k))
    /\ \A n \in 1..Len(log) :
         log[n].origin \in GradientOrigins =>
             IsChain(log[n].gradientTransform, ChainOf(log[n].ancestors))

\* A step of the handler of a transform paint: the canvas, currentPath and
\* the calls made stay as they are; calling the child paint it sets
\* currentTransform to the map that applies its own map first.
TransformPaintStep ==
    (Running /\ IsTransformPaint(Top.paint)) =>
        /\ canvas' = canvas
        /\ currentPath' = currentPath
        /\ log' = log
        /\ IF Top.pc = "call"
           THEN \A p \in TestPoints :
                    ApplyTo(currentTransform', p) =
                        ApplyTo(currentTransform,
                                ApplyTo(OwnTransform(Top.paint), p))
           ELSE currentTransform' = currentTransform

\* C17: Transform, Translate, Rotate, Skew and Scale paints make no canvas
\* call; each only replaces currentTransform by currentTransform composed
\* with its own map.  So the one transform given to the canvas at the next
\* scope entry, or passed as gradientTransform to a gradient, is that of
\* the nested paints T1 (outermost) to Tn composed in this order, Tn acting
\* on points first.
C17_TransformPaintsCompose == []ChainsComposed /\ [][TransformPaintStep]_vars

\* A scope has been entered below two nested transform paints whose maps do
\* not commute, and in it a gradient has been drawn below two more.
C17_Witness ==
    /\ \E k \in 1..Len(stack) :
         /\ InScope(k)
         /\ Len(ChainAbove(k)) = 2
         /\ ~IsChain(stack[k].transform,
                     << ChainAbove(k)[2], ChainAbove(k)[1] >>)
    /\ \E n \in 1..Len(log) :
         /\ log[n].origin \in GradientOrigins
         /\ Len(ChainOf(log[n].ancestors)) = 2
         /\ ChainOf(log[n].ancestors)[1].Format = "PaintSkew"
         /\ ~IsChain(log[n].gradientTransform,
                     << ChainOf(log[n].ancestors)[2],
                        ChainOf(log[n].ancestors)[1] >>)

\* C18: a ColrGlyph paint whose target glyph has a COLRv1 record draws the
\* target's root paint in a scope of its own: its handler, once begun,
\* raises nothing itself, the paint it draws is the target's root paint,
\* begun with currentPath None and currentTransform Identity, and when it
\* has returned the ambient state is the one before it.
C18_ColrGlyphDrawsTarget ==
    /\ \A k \in 1..Len(stack) :
         (/\ stack[k].paint.Format = "PaintColrGlyph"
          /\ stack[k].paint.Glyph \in DOMAIN colrV1Glyphs
          /\ stack[k].pc # "call") =>
             /\ k < Len(stack)
             /\ stack[k + 1].paint = colrV1Glyphs[stack[k].paint.Glyph].Paint
             /\ (k + 1 = Len(stack) /\ Top.pc = "call" /\ Top.i = 0) =>
                  (currentPath = None /\ currentTransform = Identity)
    /\ (lastExit.kind = "scope" /\ lastExit.format = "PaintColrGlyph") =>
         /\ lastExit.how = "normal"
         /\ lastExit.after.currentPath = lastExit.entry.currentPath
         /\ lastExit.after.currentTransform = lastExit.entry.currentTransform

\* Frame k is a Location paint inside its scope.
InLocation(k) ==
    /\ stack[k].paint.Format = "PaintLocation"
    /\ stack[k].pc = "wait"

\* The frames of the Location paints nested in frame k's scope.
LocationsIn(k) == { m \in (k + 1)..Len(stack) : InLocation(m) }

\* The axis values and the instancer location in force in the scope of
\* frame k: those a Location paint nested in it found at its entry, or the
\* present ones.
ValuesIn(k) ==
    IF LocationsIn(k) = { } THEN hbCoords
    ELSE stack[CHOOSE m \in LocationsIn(k) :
                   \A n \in LocationsIn(k) : m <= n].orgAxisValues

LocationIn(k) ==
    IF LocationsIn(k) = { } THEN instancer.location
    ELSE stack[CHOOSE m \in LocationsIn(k) :
                   \A n \in LocationsIn(k) : m <= n].orgLocation

\* C19: in the scope of a Location paint the normalized axis values are
\* those in force at its entry, but for every axis that a coordinate with
\* AxisIndex below the number of axes names, which has that coordinate's
\* AxisValue; coordinates with a larger AxisIndex change nothing.  The
\* values at the entry of a nested Location paint are those of the scope
\* around it.  The instancer, if there is one, is at the same values.
C19_LocationOverlaysEntryValues ==
    \A k \in 1..Len(stack) :
        (InLocation(k) /\ exc = None) =>
            LET org == stack[k].entry.hbCoords
                cs == stack[k].paint.Coordinate
                now == ValuesIn(k)
            IN  /\ Len(now) = Len(org)
                /\ Len(org) = numAxes
                /\ \A a \in 0..(numAxes - 1) :
                     IF \E j \in 1..Len(cs) : cs[j].AxisIndex = a
                     THEN \E j \in 1..Len(cs) :
                              /\ cs[j].AxisIndex = a
                              /\ now[a + 1] = cs[j].AxisValue
                     ELSE now[a + 1] = org[a + 1]
                /\ \A m \in 1..(k - 1) :
                     (InLocation(m) /\ \A n \in (m + 1)..(k - 1) :
                                          ~InLocation(n)) =>
                         org = OverlayCoords(stack[m].entry.hbCoords,
                                             stack[m].paint.Coordinate)
                /\ instancer.present =>
                     \A a \in 1..numAxes :
                         LocationIn(k)[axisTags[a]] = now[a]

\* A Location paint with a coordinate out of range is nested in another:
\* one axis has the inner paint's value, the other still the outer one's,
\* which is not the font's.
C19_Witness ==
    \E k \in 1..Len(stack), m \in 1..Len(stack) :
        /\ m < k
        /\ InLocation(m)
        /\ InLocation(k)
        /\ exc = None
        /\ \E j \in 1..Len(stack[k].paint.Coordinate) :
               stack[k].paint.Coordinate[j].AxisIndex >= numAxes
        /\ hbCoords[1] = stack[k].entry.hbCoords[1]
        /\ hbCoords[1] # glyphEntry.hbCoords[1]
        /\ hbCoords[2] # stack[k].entry.hbCoords[2]
        /\ instancer.present
        /\ Len(log) > 0

\* The point (1 - f) * a + f * b.
Lerp(a, b, f) ==
    << RatAdd(RatMul(RatSub(RatInt(1), f), a[1]), RatMul(f, b[1])),
       RatAdd(RatMul(RatSub(RatInt(1), f), a[2]), RatMul(f, b[2])) >>

\* The inner product of the vectors b - a and d - c.
Dot(a, b, c, d) ==
    RatAdd(RatMul(RatSub(b[1], a[1]), RatSub(d[1], c[1])),
           RatMul(RatSub(b[2], a[2]), RatSub(d[2], c[2])))

\* The anchors of a linear gradient.
Anchor0(paint) == << RatInt(paint.x0), RatInt(paint.y0) >>
Anchor1(paint) == << RatInt(paint.x1), RatInt(paint.y1) >>
Anchor2(paint) == << RatInt(paint.x2), RatInt(paint.y2) >>

\* pEnd = p1 - k * (p2 - p0), k = ((p1 - p0) . (p2 - p0)) / |p2 - p0|^2.
AnchorEnd(paint) ==
    LET p0 == Anchor0(paint)
        p1 == Anchor1(paint)
        p2 == Anchor2(paint)
        k == RatDiv(Dot(p0, p1, p0, p2), Dot(p0, p2, p0, p2))
    IN  << RatSub(p1[1], RatMul(k, RatSub(p2[1], p0[1]))),
           RatSub(p1[2], RatMul(k, RatSub(p2[2], p0[2]))) >>

\* The stop offsets of a colour line table, and the bounds of the line:
\* least and greatest offset, or 0 and 1 if these are the same.
OffsetsOf(line) == { line.ColorStop[i].StopOffset : i \in 1..Len(line.ColorStop) }

LeastOffset(line) ==
    CHOOSE s \in OffsetsOf(line) : \A t \in OffsetsOf(line) : RatLeq(s, t)

GreatestOffset(line) ==
    CHOOSE s \in OffsetsOf(line) : \A t \in OffsetsOf(line) : RatLeq(t, s)

LineBounds(line) ==
    IF LeastOffset(line) = GreatestOffset(line)
    THEN << RatInt(0), RatInt(1) >>
    ELSE << LeastOffset(line), GreatestOffset(line) >>

\* cl is the normalised line of table line: stop for stop the same colour,
\* at the offset moved from [least, greatest] to [0, 1] (left alone if the
\* two are the same).
IsNormalizedLine(cl, line) ==
    /\ Len(cl) = Len(line.ColorStop)
    /\ \A i \in 1..Len(cl) :
         LET cs == line.ColorStop[i]
             lo == LeastOffset(line)
             hi == GreatestOffset(line)
         IN  /\ cl[i][2] = getColor(cs.Color.PaletteIndex, cs.Color.Alpha)
             /\ IF lo = hi THEN cl[i][1] = cs.StopOffset
                ELSE RatMul(cl[i][1], RatSub(hi, lo)) =
                         RatSub(cs.StopOffset, lo)

\* The handler of a linear gradient with p2 # p0 is about to run.
AtLinearGradient ==
    /\ Running
    /\ Top.pc = "call"
    /\ Top.paint.Format = "PaintLinearGradient"
    /\ Anchor2(Top.paint) # Anchor0(Top.paint)

\* The step of that handler: one drawPathLinearGradient call with the
\* current path and transform, the normalised line and the end points.
LinearGradientStep ==
    AtLinearGradient =>
        /\ Len(log') = Len(log) + 1
        /\ \A n \in 1..Len(log) : log'[n] = log[n]
        /\ LET e == log'[Len(log')]
               paint == Top.paint
               p0 == Anchor0(paint)
               pEnd == AnchorEnd(paint)
               bounds == LineBounds(paint.ColorLine)
           IN  /\ e.op = "drawPathLinearGradient"
               /\ e.paint = paint
               /\ e.path = currentPath
               /\ e.gradientTransform = currentTransform
               /\ IsNormalizedLine(e.color.colorLine, paint.ColorLine)
               /\ e.color.pt1 = Lerp(p0, pEnd, bounds[1])
               /\ e.color.pt2 = Lerp(p0, pEnd, bounds[2])
               /\ e.color.extendMode = paint.ColorLine.Extend
               /\ Dot(p0, pEnd, p0, Anchor2(paint)) = RatInt(0)

\* C20: the handler of a LinearGradient paint with anchors p0, p1, p2,
\* p2 # p0, makes exactly one drawPathLinearGradient call: the path is
\* currentPath, the gradient transform is currentTransform, the colour line
\* is the normalised one, and the end points are lerp(p0, pEnd, sMin) and
\* lerp(p0, pEnd, sMax) for the bounds (sMin, sMax) of the line, where
\* pEnd = p1 - k * (p2 - p0), k = ((p1 - p0) . (p2 - p0)) / |p2 - p0|^2, so
\* that pEnd - p0 is at a right angle to p2 - p0.
C20_LinearGradientCall == [][LinearGradientStep]_vars

\* A linear gradient whose p1 - p0 is not at a right angle to p2 - p0 and
\* whose stops lie outside [0, 1] has been drawn, by the canvas too, with a
\* path and under a transform other than Identity.
C20_Witness ==
    \E n \in 1..Len(log) :
        LET e == log[n]
        IN  /\ e.origin = "_drawPaintLinearGradient"
            /\ e.performed
            /\ e.path # None
            /\ e.gradientTransform # Identity
            /\ AnchorEnd(e.paint) # Anchor1(e.paint)
            /\ LineBounds(e.paint.ColorLine) # << RatInt(0), RatInt(1) >>
            /\ e.color.pt1 # Anchor0(e.paint)
            /\ e.color.pt2 # AnchorEnd(e.paint)
            /\ Len(e.color.colorLine) = 3

\* The handler of a linear or radial gradient is about to make its canvas
\* call, with a path or on a canvas whose clip is flagged empty.
AtGradientCall ==
    /\ Running
    /\ Top.pc = "call"
    /\ Top.paint.Format \in { "PaintLinearGradient", "PaintRadialGradient" }
    /\ Len(log') = Len(log) + 1
    /\ currentPath # None \/ canvas.clipIsEmpty = PyTrue

\* The canvas call of that step: nothing drawn and nothing changed under an
\* empty clip or with an empty path; else one savedState deeper the path
\* joins the clip under the transform of the call, gradientTransform is
\* applied, the gradient is drawn, and the canvas is back as it was.
GradientCallStep ==
    AtGradientCall =>
        LET e == log'[Len(log')]
        IN  /\ e.op \in { "drawPathLinearGradient", "drawPathRadialGradient" }
            /\ ~e.raised
            /\ canvas'.ctm = canvas.ctm
            /\ canvas'.clip = canvas.clip
            /\ canvas'.clipIsEmpty = canvas.clipIsEmpty
            /\ canvas'.gstack = canvas.gstack
            /\ IF \/ canvas.clipIsEmpty = PyTrue
                  \/ (currentPath # None /\ PathIsEmpty(currentPath))
               THEN /\ ~e.performed
                    /\ e.ctm = canvas.ctm
                    /\ e.clip = canvas.clip
                    /\ e.clipIsEmpty = canvas.clipIsEmpty
                    /\ e.depth = Len(canvas.gstack)
               ELSE /\ e.performed
                    /\ e.depth = Len(canvas.gstack) + 1
                    /\ e.clip = Append(canvas.clip,
                                       [ path |-> e.path, ctm |-> canvas.ctm ])
                    /\ e.path = currentPath
                    /\ \A p \in TestPoints :
                         ApplyTo(e.ctm, p) =
                             ApplyTo(canvas.ctm,
                                     ApplyTo(e.gradientTransform, p))
                    /\ e.clipIsEmpty = canvas.clipIsEmpty

\* C21: drawPathLinearGradient and drawPathRadialGradient, when they draw,
\* do so inside one savedState scope, after installing the path as clip and
\* then applying gradientTransform to the canvas transform; when the call is
\* over the canvas transform, clip and empty-clip flag are what they were
\* before it; with the clip flagged empty or an empty path nothing is drawn
\* and nothing changes.
C21_GradientCallScoped == [][GradientCallStep]_vars

\* A gradient has been drawn inside a clip and under a canvas transform
\* and a gradient transform other than the identity, and the canvas is
\* back at the depth of the scope around the call.
C21_Witness ==
    \E n \in 1..Len(log) :
        /\ log[n].op \in { "drawPathLinearGradient", "drawPathRadialGradient" }
        /\ log[n].performed
        /\ Len(log[n].clip) >= 2
        /\ log[n].gradientTransform # Identity
        /\ log[n].clip[Len(log[n].clip)].ctm # Identity
        /\ log[n].clip[Len(log[n].clip)].ctm # log[n].ctm
        /\ Len(canvas.gstack) = log[n].depth - 1
        /\ Len(canvas.clip) = Len(log[n].clip) - 1
        /\ Running

\* A linear gradient was not drawn, its path being empty with no clip
\* flagged empty.
GradientSkippedOnEmptyPath ==
    \E n \in 1..Len(log) :
        /\ log[n].op = "drawPathLinearGradient"
        /\ ~log[n].performed
        /\ ~log[n].raised
        /\ log[n].clipIsEmpty # PyTrue

\* No handler of a Composite paint is waiting for a paint it has called.
NoCompositeChild ==
    \A k \in 1..Len(stack) :
        stack[k].paint.Format = "PaintComposite" => stack[k].pc = "call"

\* The step of the handler of a Composite paint: it returns with no error,
\* no canvas draw call made, and the path, the transform and the canvas as
\* they were.
CompositeStep ==
    (Running /\ Top.paint.Format = "PaintComposite") =>
        /\ exc' = None
        /\ stack' = SubSeq(stack, 1, Len(stack) - 1)
        /\ log' = log
        /\ currentPath' = currentPath
        /\ currentTransform' = currentTransform
        /\ canvas'.ctm = canvas.ctm
        /\ canvas'.clip = canvas.clip
        /\ canvas'.clipIsEmpty = canvas.clipIsEmpty
        /\ canvas'.gstack = canvas.gstack

\* C22: a Composite paint is accepted without error and renders nothing: no
\* fill is emitted, neither its source nor its backdrop paint is drawn, and
\* currentPath, currentTransform and the canvas transform and clip are left
\* as they were before the paint, with currentPath None as under a Glyph
\* paint.
C22_CompositeRendersNothing == []NoCompositeChild /\ [][CompositeStep]_vars

\* A Composite paint under a Glyph paint and a transform paint has been
\* handled: its scope had the glyph's path as clip under a canvas transform
\* of its own, and all of it is undone; no draw call has been made.
C22_Witness ==
    /\ lastExit.format = "PaintComposite"
    /\ lastExit.how = "normal"
    /\ lastExit.entry.currentPath # None
    /\ lastExit.entry.currentTransform # Identity
    /\ lastExit.inner.ctm # lastExit.entry.ctm
    /\ Len(lastExit.inner.clip) = Len(lastExit.entry.clip) + 1
    /\ lastExit.after.clip = lastExit.entry.clip
    /\ lastExit.after.ctm = lastExit.entry.ctm
    /\ exc = None
    /\ log = << >>

\* The canvas transform, clip, empty-clip flag and savedState depth of
\* canvas c are those of snapshot e.
CanvasAsAt(c, e) ==
    /\ c.ctm = e.ctm
    /\ c.clip = e.clip
    /\ c.clipIsEmpty = e.clipIsEmpty
    /\ Len(c.gstack) = e.depth

\* While a glyph is drawn, and after drawGlyph has failed, the canvas is
\* as deep in savedState scopes as at the call, and then as it was at the
\* call, or deeper, and then the first scope opened holds what was in
\* force at the call.
CanvasChangedInScopesOnly ==
    (phase # "idle") =>
        /\ Len(canvas.gstack) >= glyphEntry.depth
        /\ Len(canvas.gstack) = glyphEntry.depth =>
               CanvasAsAt(canvas, glyphEntry)
        /\ Len(canvas.gstack) > glyphEntry.depth =>
               /\ canvas.gstack[glyphEntry.depth + 1].ctm = glyphEntry.ctm
               /\ canvas.gstack[glyphEntry.depth + 1].clip = glyphEntry.clip

\* A step of drawGlyph leaves the canvas alone, or opens one savedState
\* scope that keeps the transform and clip of before (and may then change
\* them), or closes the innermost one and has the transform and clip it
\* kept.
ScopeStep ==
    (phase = "drawing") =>
        \/ canvas' = canvas
        \/ /\ canvas'.gstack =
                Append(canvas.gstack, [ ctm |-> canvas.ctm, clip |-> canvas.clip ])
        \/ /\ canvas.gstack =
                Append(canvas'.gstack, [ ctm |-> canvas'.ctm, clip |-> canvas'.clip ])

\* A step in which drawGlyph returns normally, whichever interpreter drew:
\* the canvas is as at the call.
DrawGlyphReturnStep ==
    (phase' = "idle" /\ nDrawn' = nDrawn + 1) =>
        CanvasAsAt(canvas', glyphEntry')

\* C23: every canvas.transform and canvas.clipPath call made while a glyph
\* is drawn is made inside a savedState scope opened in the same drawGlyph
\* call, and the scopes are closed innermost first; so when drawGlyph
\* returns normally, for a COLRv1, a COLRv0 or a plain glyph, the canvas
\* transform, clip, empty-clip flag and savedState depth are those of the
\* call.
C23_CanvasRestoredOnReturn ==
    /\ []CanvasChangedInScopesOnly
    /\ [][ScopeStep /\ DrawGlyphReturnStep]_vars

\* drawGlyph has returned normally from a COLRv1 glyph drawn on a canvas
\* the caller had moved: scopes were nested in it, with a clip, an empty
\* clip flagged and another canvas transform, and the canvas is as at the
\* call.
C23_Witness ==
    /\ phase = "idle"
    /\ exc = None
    /\ glyphName = "colr1"
    /\ nDrawn = MaxRun
    /\ glyphEntry.ctm # Identity
    /\ CanvasAsAt(canvas, glyphEntry)
    /\ \E n \in 1..Len(log) :
         /\ log[n].depth >= glyphEntry.depth + 2
         /\ log[n].clip # glyphEntry.clip
         /\ log[n].ctm # glyphEntry.ctm
         /\ log[n].clipIsEmpty # glyphEntry.clipIsEmpty

\* The sum of field f of the first n glyphs of a line.
RECURSIVE SumTo(_, _, _)
SumTo(line, n, f) == IF n = 0 THEN 0 ELSE SumTo(line, n - 1, f) + line[n][f]

\* C24: for every glyph of a shaped glyph line, the origin at which
\* calcGlyphLineBounds places the glyph's bounds is the origin at which
\* renderText draws the glyph: the sum of the advances of all the glyphs
\* before it, those without bounds too, plus its own offset.
C24_BoundsPlacedWhereDrawn ==
    (call.fn = "calcGlyphLineBounds") =>
        \A i \in 1..Len(call.glyphLine) :
            (call.result.placed[i] # None) =>
                /\ call.result.placed[i] =
                       << call.drawn[i][5], call.drawn[i][6] >>
                /\ call.result.placed[i] =
                       << SumTo(call.glyphLine, i - 1, "xAdvance")
                              + call.glyphLine[i].xOffset,
                          SumTo(call.glyphLine, i - 1, "yAdvance")
                              + call.glyphLine[i].yOffset >>

====
